---- MODULE Spec2Model ----
(***************************************************************************)
(* Model of the WhaleRadar signal pipeline: the liquidation analyzers, the *)
(* RSI confirmation, the signal fusion of MasterStrategy and the scan loop *)
(* of WhaleRadar.                                                          *)
(*                                                                         *)
(* Number representation.  The program computes in floats; the model is    *)
(* exact integer arithmetic:                                               *)
(*   - prices are integers (price units);                                  *)
(*   - liquidation values are in thousands of USD;                         *)
(*   - a distance_from_price_pct d is stored as d * current_price, that is *)
(*     |price - current_price| * 100, and "d < k" is "stored < k * cp";    *)
(*   - stop_loss and take_profit_targets of a signal are stored times      *)
(*     PriceScale (1000), so that price * 0.995 is price * 995.            *)
(***************************************************************************)
EXTENDS Integers, Sequences, FiniteSets, TLC

VARIABLES
    pc,             \* position of the modelled control flow
    symbol,         \* symbol under analysis
    current_price,  \* its current price
    heatmap,        \* raw liquidation responses, one per timeframe
    liq,            \* result of LiquidationAnalyzer.analyze_liquidations
    deep,           \* result of DeepLiquidationAnalyzer.analyze_all_liquidation_levels
    screener,       \* result of VisualScreenerAnalyzer.analyze_all_screeners
    rsi,            \* result of RSIAnalyzer.analyze_rsi
    signal,         \* result of MasterStrategy.analyze_symbol
    movers,         \* top movers of the scan still to be processed
    signals,        \* signals collected by the scan, then the batch still to be sent
    sent_alerts,    \* TelegramNotifier.sent_alerts: alert key -> time of the delivery
    now,            \* the clock, in ticks
    outbox,         \* the calls of send_signal_alert in this iteration, with their outcome
    call,           \* a direct call of one function: its name and arguments
    result          \* what the call returned

vars == <<pc, symbol, current_price, heatmap, liq, deep, screener, rsi, signal,
          movers, signals, sent_alerts, now, outbox, call, result>>

\* the state of a direct call
call_vars == <<call, result>>

\* the state of the scan loop
loop_vars == <<movers, signals, sent_alerts, now, outbox>>

-----------------------------------------------------------------------------
(* Bounds of the model *)

\* number of price levels per side inside the 20% band of the input family
MaxLevels == 5
\* resolution of the clock: ticks per hour
TicksPerHour == 2
\* the scan loop is followed up to this time
MaxTime == 3

(* Program constants *)

\* settings.min_liquidation_value_usd (1000000.0 USD), in thousands of USD
MinLiquidationValue == 1000
\* nearby clusters: distance_from_price_pct < 5
NearbyPct == 5
\* support / resistance levels: distance_from_price_pct < 20
LevelBandPct == 20
\* at most 4 scale-in entries
MaxEntries == 4
\* DeepLiquidationAnalyzer keeps the top 10 levels per side
MajorClusterLimit == 10
\* unit of stop_loss / take_profit_targets: 1/1000 of a price unit
PriceScale == 1000

-----------------------------------------------------------------------------
(* Python helpers *)

None == [present |-> FALSE]

Abs(x) == IF x < 0 THEN -x ELSE x
Min2(a, b) == IF a < b THEN a ELSE b
Max2(a, b) == IF a > b THEN a ELSE b

RECURSIVE SumSeq(_)
SumSeq(s) == IF s = <<>> THEN 0 ELSE Head(s) + SumSeq(Tail(s))

\* s[:n]
Take(s, n) == SubSeq(s, 1, Min2(n, Len(s)))

\* [x for x in s if keep[x]] with keep given per index
RECURSIVE FilterIdx(_, _, _)
FilterIdx(s, keep, i) ==
    IF i > Len(s) THEN <<>>
    ELSE (IF keep[i] THEN <<s[i]>> ELSE <<>>) \o FilterIdx(s, keep, i + 1)

RECURSIVE InsertPair(_, _)
InsertPair(p, s) ==
    IF s = <<>> THEN <<p>>
    ELSE IF p[1] < Head(s)[1] THEN <<p>> \o s
    ELSE <<Head(s)>> \o InsertPair(p, Tail(s))

RECURSIVE SortPairs(_)
SortPairs(s) ==
    IF s = <<>> THEN <<>>
    ELSE InsertPair(s[Len(s)], SortPairs(SubSeq(s, 1, Len(s) - 1)))

\* list.sort / sorted: stable, ascending in keys[i]; reverse=True is keys negated
StableSortBy(s, keys) ==
    LET ps == [i \in 1..Len(s) |-> <<keys[i], s[i]>>]
        sorted == SortPairs(ps)
    IN [i \in 1..Len(s) |-> sorted[i][2]]

\* the keys of a price -> value map in ascending order
RECURSIVE AscSeq(_)
AscSeq(S) ==
    IF S = {} THEN <<>>
    ELSE LET m == CHOOSE x \in S : \A y \in S : x <= y
         IN <<m>> \o AscSeq(S \ {m})

Reverse(s) == [i \in 1..Len(s) |-> s[Len(s) + 1 - i]]

\* abs((price - current_price) / current_price * 100), times current_price
distance_pct(price, cp) == Abs(price - cp) * 100

-----------------------------------------------------------------------------
(* CoinGlassClient: the raw liquidation heatmap responses *)

\* the timeframes fetched, in the order the code iterates them
Timeframes == <<"12h", "24h">>

EmptyMap == [p \in {} |-> 0]

\* a request that raised
FailedResponse == [status |-> "fail", longs |-> EmptyMap, shorts |-> EmptyMap]
\* a response without a "data" key
NoDataResponse == [status |-> "nodata", longs |-> EmptyMap, shorts |-> EmptyMap]
DataResponse(l, s) == [status |-> "data", longs |-> l, shorts |-> s]

\* CoinGlassClient.get_liquidation_heatmap_all_timeframes: the timeframes whose
\* request did not raise (results[tf] is set only in the try body)
get_liquidation_heatmap_all_timeframes(raw) ==
    {i \in DOMAIN raw : raw[i].status # "fail"}

-----------------------------------------------------------------------------
(* LiquidationAnalyzer (src/src/indicators/liquidation_analyzer.py) *)

\* aggregated_longs / aggregated_shorts: the sum over the usable timeframes of
\* the values at one price
RECURSIVE aggregated(_, _, _, _)
aggregated(raw, side, price, i) ==
    IF i > Len(raw) THEN 0
    ELSE LET m == IF side = "long" THEN raw[i].longs ELSE raw[i].shorts
             here == IF raw[i].status = "data" /\ price \in DOMAIN m THEN m[price] ELSE 0
         IN here + aggregated(raw, side, price, i + 1)

\* the prices kept while aggregating: longs below, shorts above current_price
aggregated_keys(raw, side, cp) ==
    LET all == UNION {IF raw[i].status = "data"
                      THEN (IF side = "long" THEN DOMAIN raw[i].longs ELSE DOMAIN raw[i].shorts)
                      ELSE {} : i \in DOMAIN raw}
    IN {p \in all : IF side = "long" THEN p < cp ELSE p > cp}

\* the loop that creates clusters for significant levels
RECURSIVE make_clusters(_, _, _, _, _)
make_clusters(raw, side, cp, prices, cumulative) ==
    IF prices = <<>> THEN <<>>
    ELSE LET price == Head(prices)
             value == aggregated(raw, side, price, 1)
         IN IF value >= MinLiquidationValue
            THEN <<[price |-> price,
                    value_usd |-> value,
                    type |-> side,
                    cumulative_value |-> cumulative + value,
                    distance_from_price_pct |-> distance_pct(price, cp)]>>
                 \o make_clusters(raw, side, cp, Tail(prices), cumulative + value)
            ELSE make_clusters(raw, side, cp, Tail(prices), cumulative)

LiquidationAnalyzer_process_clusters(raw, side, cp) ==
    LET keys == aggregated_keys(raw, side, cp)
        order == IF side = "long" THEN Reverse(AscSeq(keys)) ELSE AscSeq(keys)
    IN make_clusters(raw, side, cp, order, 0)

total_value(clusters) == SumSeq([i \in 1..Len(clusters) |-> clusters[i].value_usd])

\* ratio > num/den, where ratio = total_short / total_long, inf if only
\* total_long is 0, and 1 if both are 0
RatioGT(total_long, total_short, num, den) ==
    IF total_long > 0 THEN total_short * den > num * total_long
    ELSE IF total_short > 0 THEN TRUE
    ELSE den > num

RatioLT(total_long, total_short, num, den) ==
    IF total_long > 0 THEN total_short * den < num * total_long
    ELSE IF total_short > 0 THEN FALSE
    ELSE den < num

nearby(clusters, cp) ==
    Cardinality({i \in 1..Len(clusters) :
                    clusters[i].distance_from_price_pct < NearbyPct * cp})

\* ratio_threshold = 1.5 = 3/2, 1 / ratio_threshold = 2/3
LiquidationAnalyzer_determine_direction(long_clusters, short_clusters, total_long, total_short, cp) ==
    LET nearby_longs == nearby(long_clusters, cp)
        nearby_shorts == nearby(short_clusters, cp)
        first == IF RatioGT(total_long, total_short, 3, 2) /\ nearby_shorts > nearby_longs
                 THEN <<"UP", IF RatioGT(total_long, total_short, 2, 1) THEN "HIGH" ELSE "MEDIUM">>
                 ELSE IF RatioLT(total_long, total_short, 2, 3) /\ nearby_longs > nearby_shorts
                 THEN <<"DOWN", IF RatioLT(total_long, total_short, 1, 2) THEN "HIGH" ELSE "MEDIUM">>
                 ELSE <<"RANGE", "LOW">>
    IN IF total_short > total_long * 3 THEN <<"UP", "HIGH">>
       ELSE IF total_long > total_short * 3 THEN <<"DOWN", "HIGH">>
       ELSE first

\* _find_support_levels and _find_resistance_levels: the clusters within 20% of
\* the price as (price, cumulative_value), strongest cumulative value first
LiquidationAnalyzer_find_levels(clusters, cp) ==
    LET keep == [i \in 1..Len(clusters) |->
                    clusters[i].distance_from_price_pct < LevelBandPct * cp]
        inband == FilterIdx(clusters, keep, 1)
        levels == [i \in 1..Len(inband) |-> <<inband[i].price, inband[i].cumulative_value>>]
    IN StableSortBy(levels, [i \in 1..Len(levels) |-> -levels[i][2]])

\* faulty variant of _distribute_position: the remainder of the even split is dropped
distribute_position_without_remainder(num_entries) ==
    IF num_entries = 1 THEN <<100>>
    ELSE IF num_entries = 2 THEN <<60, 40>>
    ELSE IF num_entries = 3 THEN <<40, 35, 25>>
    ELSE IF num_entries = 4 THEN <<30, 30, 25, 15>>
    ELSE [i \in 1..num_entries |-> 100 \div num_entries]

LiquidationAnalyzer_distribute_position(num_entries) ==
    IF num_entries = 1 THEN <<100>>
    ELSE IF num_entries = 2 THEN <<60, 40>>
    ELSE IF num_entries = 3 THEN <<40, 35, 25>>
    ELSE IF num_entries = 4 THEN <<30, 30, 25, 15>>
    ELSE LET base == 100 \div num_entries
             remainder == 100 % num_entries
         IN [i \in 1..num_entries |-> IF i <= remainder THEN base + 1 ELSE base]

\* the zones of one direction: the first 4 levels with the table's percentages
directional_zones(levels) ==
    IF levels = <<>> THEN <<>>
    ELSE LET position_pcts == LiquidationAnalyzer_distribute_position(Len(levels))
             shown == Take(levels, MaxEntries)
         IN [i \in 1..Len(shown) |->
                [price |-> shown[i][1], position_pct |-> position_pcts[i]]]

LiquidationAnalyzer_calculate_scale_zones(direction, long_clusters, short_clusters, cp) ==
    LET support == LiquidationAnalyzer_find_levels(long_clusters, cp)
        resistance == LiquidationAnalyzer_find_levels(short_clusters, cp)
    IN IF direction = "UP" THEN directional_zones(support)
       ELSE IF direction = "DOWN" THEN directional_zones(resistance)
       ELSE IF support # <<>> /\ resistance # <<>>
            THEN <<[price |-> support[1][1], position_pct |-> 50],
                   [price |-> resistance[1][1], position_pct |-> 50]>>
            ELSE <<>>

LiquidationAnalyzer_analyze_liquidations(sym, cp, raw) ==
    IF get_liquidation_heatmap_all_timeframes(raw) = {} THEN None
    ELSE LET long_clusters == LiquidationAnalyzer_process_clusters(raw, "long", cp)
             short_clusters == LiquidationAnalyzer_process_clusters(raw, "short", cp)
             total_long_value == total_value(long_clusters)
             total_short_value == total_value(short_clusters)
             dc == LiquidationAnalyzer_determine_direction(
                       long_clusters, short_clusters, total_long_value, total_short_value, cp)
         IN [present |-> TRUE,
             symbol |-> sym,
             current_price |-> cp,
             direction |-> dc[1],
             long_liquidations |-> long_clusters,
             short_liquidations |-> short_clusters,
             total_long_value |-> total_long_value,
             total_short_value |-> total_short_value,
             scale_in_zones |-> LiquidationAnalyzer_calculate_scale_zones(
                                    dc[1], long_clusters, short_clusters, cp),
             confidence |-> dc[2]]

-----------------------------------------------------------------------------
(* DeepLiquidationAnalyzer (src/src/indicators/deep_liquidation_analyzer.py) *)

\* _fetch_liquidation_levels: data.get('data', {}) of the response, {} if the
\* request raised
DeepLiquidationAnalyzer_fetch_liquidation_levels(resp) ==
    IF resp.status = "data" THEN [longs |-> resp.longs, shorts |-> resp.shorts]
    ELSE [longs |-> EmptyMap, shorts |-> EmptyMap]

\* the levels of one map, in the map's order (ascending price)
side_levels(m, side, tf, cp) ==
    LET prices == AscSeq(DOMAIN m)
    IN [i \in 1..Len(prices) |->
           [price |-> prices[i],
            value_usd |-> m[prices[i]],
            type |-> side,
            timeframe |-> tf,
            distance_from_price_pct |-> distance_pct(prices[i], cp)]]

by_value_desc(levels) ==
    StableSortBy(levels, [i \in 1..Len(levels) |-> -levels[i].value_usd])

\* _process_all_levels, for one timeframe: longs, then shorts, sorted by value
DeepLiquidationAnalyzer_process_all_levels(data, tf, cp) ==
    by_value_desc(side_levels(data.longs, "long", tf, cp)
                  \o side_levels(data.shorts, "short", tf, cp))

\* the levels of every timeframe, in the order of the timeframes
RECURSIVE all_timeframe_levels(_, _, _)
all_timeframe_levels(raw, cp, i) ==
    IF i > Len(raw) THEN <<>>
    ELSE DeepLiquidationAnalyzer_process_all_levels(
             DeepLiquidationAnalyzer_fetch_liquidation_levels(raw[i]), Timeframes[i], cp)
         \o all_timeframe_levels(raw, cp, i + 1)

of_type(levels, side) ==
    FilterIdx(levels, [i \in 1..Len(levels) |-> levels[i].type = side], 1)

\* _calculate_totals: <<total_longs, total_shorts>>
DeepLiquidationAnalyzer_calculate_totals(levels) ==
    <<total_value(of_type(levels, "long")), total_value(of_type(levels, "short"))>>

DeepLiquidationAnalyzer_find_major_clusters(levels, liq_type) ==
    LET top == Take(by_value_desc(of_type(levels, liq_type)), MajorClusterLimit)
    IN [i \in 1..Len(top) |->
           [price |-> top[i].price,
            value_usd |-> top[i].value_usd,
            distance_pct |-> top[i].distance_from_price_pct,
            timeframe |-> top[i].timeframe]]

\* faulty variant of the imbalance: the shorts' share of the total, in percent,
\* less the longs' value
imbalance_pct_of_share(tl, ts) == IF ts + tl > 0 THEN ts * 100 - tl * (ts + tl) ELSE 0

\* imbalance_pct = ((total_shorts - total_longs) / (total_shorts + total_longs) * 100)
\* if (total_shorts + total_longs) > 0 else 0; the value is stored times
\* ScoreScale(tl, ts), which is total_shorts + total_longs when that is positive
imbalance_pct(tl, ts) == IF ts + tl > 0 THEN (ts - tl) * 100 ELSE 0

\* imbalance_pct = (total_shorts - total_longs) / (total_shorts + total_longs) * 100,
\* 0 if both are 0: imbalance_pct > k
ImbalanceGT(tl, ts, k) == IF ts + tl > 0 THEN (ts - tl) * 100 > k * (ts + tl) ELSE 0 > k
ImbalanceLT(tl, ts, k) == IF ts + tl > 0 THEN (ts - tl) * 100 < k * (ts + tl) ELSE 0 < k

\* the scale of a liquidation score: the score is stored times ScoreScale
ScoreScale(tl, ts) == IF ts + tl > 0 THEN ts + tl ELSE 1

\* _calculate_liquidation_score, times ScoreScale(tl, ts)
DeepLiquidationAnalyzer_calculate_liquidation_score(tl, ts, long_clusters, short_clusters) ==
    LET S == ScoreScale(tl, ts)
        \* min(30, abs(imbalance) / 2), times S
        impact == IF ts + tl > 0 THEN Min2(30 * S, 50 * Abs(ts - tl)) ELSE 0
        signed == IF ImbalanceGT(tl, ts, 0) THEN impact ELSE -impact
        top_long == total_value(Take(long_clusters, 3))
        top_short == total_value(Take(short_clusters, 3))
        concentration ==
            IF long_clusters # <<>> /\ short_clusters # <<>>
            THEN (IF top_short > top_long * 2 THEN 20 * S
                  ELSE IF top_long > top_short * 2 THEN -20 * S
                  ELSE 0)
            ELSE 0
    IN Max2(0, Min2(100 * S, 50 * S + signed + concentration))

\* _determine_direction(imbalance, score), the score times S
DeepLiquidationAnalyzer_determine_direction(tl, ts, score, S) ==
    IF score > 70 * S THEN (IF ImbalanceGT(tl, ts, 0) THEN <<"LONG", "HIGH">> ELSE <<"SHORT", "HIGH">>)
    ELSE IF score > 60 * S THEN (IF ImbalanceGT(tl, ts, 0) THEN <<"LONG", "MEDIUM">> ELSE <<"SHORT", "MEDIUM">>)
    ELSE IF score < 30 * S THEN (IF ImbalanceLT(tl, ts, 0) THEN <<"SHORT", "HIGH">> ELSE <<"LONG", "HIGH">>)
    ELSE IF score < 40 * S THEN (IF ImbalanceLT(tl, ts, 0) THEN <<"SHORT", "MEDIUM">> ELSE <<"LONG", "MEDIUM">>)
    ELSE <<"NEUTRAL", "LOW">>

\* faulty variant of the nearest cluster: the first cluster of the list, which
\* is the most valuable one
nearest_is_first(clusters) == clusters[1]

\* min(clusters, key=lambda x: x['distance_pct']): the first cluster of minimum distance
nearest(clusters) ==
    LET i == CHOOSE i \in 1..Len(clusters) :
                 /\ \A j \in 1..Len(clusters) : clusters[i].distance_pct <= clusters[j].distance_pct
                 /\ \A j \in 1..(i - 1) : clusters[j].distance_pct > clusters[i].distance_pct
    IN clusters[i]

\* _predict_whale_target; price is times PriceScale; raised: the f-string reads
\* nearest_short['value_millions'] (nearest_long) of a None
DeepLiquidationAnalyzer_predict_whale_target(long_clusters, short_clusters, tl, ts, cp) ==
    LET has_long == long_clusters # <<>>
        has_short == short_clusters # <<>>
        confidence == IF ImbalanceGT(tl, ts, 30) \/ ImbalanceLT(tl, ts, -30) THEN "HIGH" ELSE "MEDIUM"
        target(p, d, r) == [raised |-> r, price |-> p, direction |-> d, confidence |-> confidence]
    IN IF ImbalanceGT(tl, ts, 30)
       THEN (IF has_short THEN target(nearest(short_clusters).price * PriceScale, "UP", FALSE)
             ELSE target(cp * 1050, "UP", TRUE))
       ELSE IF ImbalanceLT(tl, ts, -30)
       THEN (IF has_long THEN target(nearest(long_clusters).price * PriceScale, "DOWN", FALSE)
             ELSE target(cp * 950, "DOWN", TRUE))
       ELSE IF has_short /\ has_long
       THEN (IF nearest(short_clusters).value_usd > nearest(long_clusters).value_usd
             THEN target(nearest(short_clusters).price * PriceScale, "UP", FALSE)
             ELSE target(nearest(long_clusters).price * PriceScale, "DOWN", FALSE))
       ELSE target(cp * PriceScale, "RANGE", FALSE)

\* the zones of one direction: up to 4 targets with the sizes 30, 30, 25, 15
deep_zones(targets) ==
    LET position_sizes == <<30, 30, 25, 15>>
    IN [i \in 1..Len(targets) |->
           [price |-> targets[i].price, position_pct |-> position_sizes[i]]]

DeepLiquidationAnalyzer_calculate_scale_zones(long_clusters, short_clusters, direction, cp) ==
    IF direction = "LONG"
    THEN LET below == FilterIdx(long_clusters,
                          [i \in 1..Len(long_clusters) |-> long_clusters[i].price < cp], 1)
         IN deep_zones(Take(StableSortBy(below, [i \in 1..Len(below) |-> -below[i].price]),
                            MaxEntries))
    ELSE IF direction = "SHORT"
    THEN LET above == FilterIdx(short_clusters,
                          [i \in 1..Len(short_clusters) |-> short_clusters[i].price > cp], 1)
         IN deep_zones(Take(StableSortBy(above, [i \in 1..Len(above) |-> above[i].price]),
                            MaxEntries))
    ELSE <<>>

\* analyze_all_liquidation_levels: raised is TRUE when _predict_whale_target
\* raises, and then no analysis object is returned
DeepLiquidationAnalyzer_analyze_all_liquidation_levels(sym, cp, raw) ==
    LET levels == all_timeframe_levels(raw, cp, 1)
        totals == DeepLiquidationAnalyzer_calculate_totals(levels)
        tl == totals[1]
        ts == totals[2]
        major_long_clusters == DeepLiquidationAnalyzer_find_major_clusters(levels, "long")
        major_short_clusters == DeepLiquidationAnalyzer_find_major_clusters(levels, "short")
        next_target == DeepLiquidationAnalyzer_predict_whale_target(
                           major_long_clusters, major_short_clusters, tl, ts, cp)
        liq_score == DeepLiquidationAnalyzer_calculate_liquidation_score(
                         tl, ts, major_long_clusters, major_short_clusters)
        dc == DeepLiquidationAnalyzer_determine_direction(tl, ts, liq_score, ScoreScale(tl, ts))
    IN [present |-> ~next_target.raised,
        raised |-> next_target.raised,
        symbol |-> sym,
        current_price |-> cp,
        total_long_liquidations |-> tl,
        total_short_liquidations |-> ts,
        liquidation_imbalance_pct |-> imbalance_pct(tl, ts),
        next_whale_target |-> next_target,
        liquidation_score |-> liq_score,
        major_long_clusters |-> major_long_clusters,
        major_short_clusters |-> major_short_clusters,
        recommended_direction |-> dc[1],
        confidence |-> dc[2],
        scale_in_zones |-> DeepLiquidationAnalyzer_calculate_scale_zones(
                               major_long_clusters, major_short_clusters, dc[1], cp)]

-----------------------------------------------------------------------------
(* The bounded inputs of the liquidation analyzers *)

\* the symbols scanned: one with a price in the table, one without
Symbols == {"BTC", "XYZ"}

\* MasterStrategy._get_current_price / DeepLiquidationAnalyzer._get_current_price
get_current_price(sym) == IF sym = "BTC" THEN 43250 ELSE 100

\* the i-th price level of the band: 2 * i percent below (dir = -1) or above
\* (dir = 1) the current price; the levels 1 and 2 are nearby (< 5%)
BandPrice(cp, dir, i) == cp + dir * i * (cp \div 50)
\* a level 30% away, outside the 20% band
FarPrice(cp, dir) == cp + dir * 3 * (cp \div 10)

SmallValue == MinLiquidationValue \div 2
BigValue == 32 * MinLiquidationValue

Dir(side) == IF side = "long" THEN -1 ELSE 1

\* every set of band levels on the side's own side of the price, each level
\* of the minimum cluster value
RichMaps(cp, side) ==
    {[p \in {BandPrice(cp, Dir(side), i) : i \in S} |-> MinLiquidationValue] :
        S \in SUBSET (1..MaxLevels)}

OneLevel(price, value) == [p \in {price} |-> value]

\* no level, or one level: near and small, near and big, far and big, or near
\* and on the other side of the price
SimpleMaps(cp, side) ==
    {EmptyMap,
     OneLevel(BandPrice(cp, Dir(side), 1), SmallValue),
     OneLevel(BandPrice(cp, Dir(side), 1), BigValue),
     OneLevel(FarPrice(cp, Dir(side)), BigValue),
     OneLevel(BandPrice(cp, -Dir(side), 1), MinLiquidationValue)}

TinyMaps(cp, side) ==
    {EmptyMap,
     OneLevel(BandPrice(cp, Dir(side), 1), SmallValue),
     OneLevel(BandPrice(cp, -Dir(side), 1), BigValue)}

\* the responses of the first timeframe: one side rich, the other simple
RichResponses(cp) ==
    {FailedResponse, NoDataResponse}
    \cup {DataResponse(l, s) : l \in RichMaps(cp, "long"), s \in SimpleMaps(cp, "short")}
    \cup {DataResponse(l, s) : l \in SimpleMaps(cp, "long"), s \in RichMaps(cp, "short")}

\* the responses of the second timeframe
TinyResponses(cp) ==
    {FailedResponse, NoDataResponse}
    \cup {DataResponse(l, s) : l \in TinyMaps(cp, "long"), s \in TinyMaps(cp, "short")}

-----------------------------------------------------------------------------
(* SpecLiq: both liquidation analyzers on one symbol's heatmaps *)

\* no function is being called directly
NoCall == [fn |-> "none"]

NoCallState ==
    /\ call = NoCall
    /\ result = None

NoSignalState ==
    /\ NoCallState
    /\ screener = None
    /\ rsi = None
    /\ signal = None
    /\ movers = <<>>
    /\ signals = <<>>
    /\ sent_alerts = EmptyMap
    /\ now = 0
    /\ outbox = <<>>

InitLiq ==
    /\ pc = "idle"
    /\ symbol = "XYZ"
    /\ current_price = get_current_price("XYZ")
    /\ heatmap = <<FailedResponse, FailedResponse>>
    /\ liq = None
    /\ deep = None
    /\ NoSignalState

\* the heatmap requests of one symbol are answered
FetchHeatmaps ==
    /\ pc = "idle"
    /\ \E sym \in Symbols :
         \E r1 \in RichResponses(get_current_price(sym)),
            r2 \in TinyResponses(get_current_price(sym)) :
            /\ symbol' = sym
            /\ current_price' = get_current_price(sym)
            /\ heatmap' = <<r1, r2>>
    /\ pc' = "fetched"
    /\ UNCHANGED <<liq, deep, screener, rsi, signal, loop_vars, call_vars>>

\* LiquidationAnalyzer.analyze_liquidations(symbol, current_price)
AnalyzeLiquidations ==
    /\ pc = "fetched"
    /\ liq' = LiquidationAnalyzer_analyze_liquidations(symbol, current_price, heatmap)
    /\ pc' = "analysed"
    /\ UNCHANGED <<symbol, current_price, heatmap, deep, screener, rsi, signal, loop_vars, call_vars>>

\* DeepLiquidationAnalyzer.analyze_all_liquidation_levels(symbol, current_price)
AnalyzeAllLiquidationLevels ==
    /\ pc = "analysed"
    /\ deep' = DeepLiquidationAnalyzer_analyze_all_liquidation_levels(symbol, current_price, heatmap)
    /\ pc' = "deep_analysed"
    /\ UNCHANGED <<symbol, current_price, heatmap, liq, screener, rsi, signal, loop_vars, call_vars>>

\* the caller goes on to the next symbol
NextSymbol ==
    /\ pc = "deep_analysed"
    /\ pc' = "idle"
    /\ symbol' = "XYZ"
    /\ current_price' = get_current_price("XYZ")
    /\ heatmap' = <<FailedResponse, FailedResponse>>
    /\ liq' = None
    /\ deep' = None
    /\ UNCHANGED <<screener, rsi, signal, loop_vars, call_vars>>

NextLiq ==
    \/ FetchHeatmaps
    \/ AnalyzeLiquidations
    \/ AnalyzeAllLiquidationLevels
    \/ NextSymbol

SpecLiq == InitLiq /\ [][NextLiq]_vars

-----------------------------------------------------------------------------
(* RSIAnalyzer (src/src/indicators/rsi_heatmap.py) *)

\* settings.rsi_oversold, settings.rsi_overbought
rsi_oversold == 30
rsi_overbought == 70

\* rsi_values.get(tf, 50)
rsi_get(rsi_values, tf) == IF tf \in DOMAIN rsi_values THEN rsi_values[tf] ELSE 50

important_timeframes == <<"1h", "4h", "12h", "1d">>

\* faulty variant of _determine_rsi_status: at the tier of two values the
\* overbought count is tested before the oversold count
determine_rsi_status_overbought_first(rsi_values) ==
    LET v == [i \in 1..4 |-> rsi_get(rsi_values, important_timeframes[i])]
        oversold_count == Cardinality({i \in 1..4 : v[i] <= rsi_oversold})
        overbought_count == Cardinality({i \in 1..4 : v[i] > rsi_oversold /\ v[i] >= rsi_overbought})
    IN IF oversold_count >= 3 THEN "OVERSOLD"
       ELSE IF overbought_count >= 3 THEN "OVERBOUGHT"
       ELSE IF overbought_count >= 2 THEN "STRONG"
       ELSE IF oversold_count >= 2 THEN "WEAK"
       ELSE "NEUTRAL"

RSIAnalyzer_determine_rsi_status(rsi_values) ==
    LET v == [i \in 1..4 |-> rsi_get(rsi_values, important_timeframes[i])]
        oversold_count == Cardinality({i \in 1..4 : v[i] <= rsi_oversold})
        overbought_count == Cardinality({i \in 1..4 : v[i] > rsi_oversold /\ v[i] >= rsi_overbought})
    IN IF oversold_count >= 3 THEN "OVERSOLD"
       ELSE IF overbought_count >= 3 THEN "OVERBOUGHT"
       ELSE IF oversold_count >= 2 THEN "WEAK"
       ELSE IF overbought_count >= 2 THEN "STRONG"
       ELSE "NEUTRAL"

\* std_dev < k for the population standard deviation of the four values:
\* variance = (4 * sum(x^2) - sum(x)^2) / 16 < k^2
StdDevLT(v, k) ==
    LET sum == SumSeq(v)
        squares == SumSeq([i \in 1..Len(v) |-> v[i] * v[i]])
    IN 4 * squares - sum * sum < 16 * k * k

RSIAnalyzer_calculate_confluence_score(rsi_values) ==
    LET v == [i \in 1..4 |-> rsi_get(rsi_values, important_timeframes[i])]
        confluence == IF StdDevLT(v, 5) THEN 100
                      ELSE IF StdDevLT(v, 10) THEN 80
                      ELSE IF StdDevLT(v, 15) THEN 60
                      ELSE IF StdDevLT(v, 20) THEN 40
                      ELSE 20
    IN IF \A i \in 1..4 : v[i] <= rsi_oversold THEN Min2(100, confluence + 20)
       ELSE IF \A i \in 1..4 : v[i] >= rsi_overbought THEN Min2(100, confluence + 20)
       ELSE confluence

\* analyze_rsi, given what get_rsi_multi_timeframe returned
RSIAnalyzer_analyze_rsi(sym, rsi_values) ==
    IF DOMAIN rsi_values = {} THEN None
    ELSE [present |-> TRUE,
          symbol |-> sym,
          rsi_5m |-> rsi_get(rsi_values, "5m"),
          rsi_15m |-> rsi_get(rsi_values, "15m"),
          rsi_1h |-> rsi_get(rsi_values, "1h"),
          rsi_4h |-> rsi_get(rsi_values, "4h"),
          rsi_12h |-> rsi_get(rsi_values, "12h"),
          rsi_1d |-> rsi_get(rsi_values, "1d"),
          rsi_1w |-> rsi_get(rsi_values, "1w"),
          status |-> RSIAnalyzer_determine_rsi_status(rsi_values),
          confluence_score |-> RSIAnalyzer_calculate_confluence_score(rsi_values)]

\* the branch of confirm_direction_with_rsi for proposed_direction = "UP":
\* <<confidence, reasons>>
confirm_up(r) ==
    LET c1 == IF r.status \in {"OVERSOLD", "WEAK"} THEN "HIGH" ELSE "LOW"
        r1 == IF r.status \in {"OVERSOLD", "WEAK"}
              THEN <<"RSI indicates oversold conditions">> ELSE <<>>
        c2 == IF r.rsi_4h < 35 /\ r.rsi_1d < 40 THEN "HIGH"
              ELSE IF r.rsi_1h < 30 THEN "MEDIUM"
              ELSE c1
        r2 == IF r.rsi_4h < 35 /\ r.rsi_1d < 40 THEN <<"4H and 1D RSI both oversold">>
              ELSE IF r.rsi_1h < 30 THEN <<"1H RSI oversold">>
              ELSE <<>>
        r3 == IF r.rsi_1h < r.rsi_4h /\ r.rsi_4h < r.rsi_1d
              THEN <<"RSI showing potential bullish divergence">> ELSE <<>>
    IN <<c2, r1 \o r2 \o r3>>

\* the branch for proposed_direction = "DOWN"
confirm_down(r) ==
    LET c1 == IF r.status \in {"OVERBOUGHT", "STRONG"} THEN "HIGH" ELSE "LOW"
        r1 == IF r.status \in {"OVERBOUGHT", "STRONG"}
              THEN <<"RSI indicates overbought conditions">> ELSE <<>>
        c2 == IF r.rsi_4h > 65 /\ r.rsi_1d > 60 THEN "HIGH"
              ELSE IF r.rsi_1h > 70 THEN "MEDIUM"
              ELSE c1
        r2 == IF r.rsi_4h > 65 /\ r.rsi_1d > 60 THEN <<"4H and 1D RSI both overbought">>
              ELSE IF r.rsi_1h > 70 THEN <<"1H RSI overbought">>
              ELSE <<>>
        r3 == IF r.rsi_1h > r.rsi_4h /\ r.rsi_4h > r.rsi_1d
              THEN <<"RSI showing potential bearish divergence">> ELSE <<>>
    IN <<c2, r1 \o r2 \o r3>>

\* faulty variant of confirm_direction_with_rsi: the neutral 4h RSI lowers the
\* confidence only when no other rule has set it
confirm_direction_neutral_first(rsi_data, proposed_direction) ==
    LET branch == IF proposed_direction = "UP" THEN confirm_up(rsi_data)
                  ELSE IF proposed_direction = "DOWN" THEN confirm_down(rsi_data)
                  ELSE <<"LOW", <<>>>>
        neutral == 45 <= rsi_data.rsi_4h /\ rsi_data.rsi_4h <= 55
    IN [confidence |-> branch[1],
        reasons |-> IF neutral THEN <<"4H RSI is neutral">> \o branch[2] ELSE branch[2],
        rsi_status |-> rsi_data.status,
        confluence_score |-> rsi_data.confluence_score]

RSIAnalyzer_confirm_direction_with_rsi(rsi_data, proposed_direction) ==
    LET branch == IF proposed_direction = "UP" THEN confirm_up(rsi_data)
                  ELSE IF proposed_direction = "DOWN" THEN confirm_down(rsi_data)
                  ELSE <<"LOW", <<>>>>
        neutral == 45 <= rsi_data.rsi_4h /\ rsi_data.rsi_4h <= 55
    IN [confidence |-> IF neutral THEN "LOW" ELSE branch[1],
        reasons |-> IF neutral THEN branch[2] \o <<"4H RSI is neutral">> ELSE branch[2],
        rsi_status |-> rsi_data.status,
        confluence_score |-> rsi_data.confluence_score]

-----------------------------------------------------------------------------
(* VisualScreenerAnalyzer (src/src/indicators/visual_screener.py) *)

\* settings.volume_spike_threshold, settings.oi_spike_threshold
volume_spike_threshold == 200
oi_spike_threshold == 50

Sign(x) == IF x > 0 THEN 1 ELSE -1

\* int(x / 20): truncation towards zero
TruncDiv20(x) == IF x >= 0 THEN x \div 20 ELSE -((-x) \div 20)

\* faulty variant of _calculate_momentum_score: the score is not capped
momentum_score_without_cap(data) ==
    LET price_change == data.price_change
        volume_change == data.volume_change
        oi_change == data.oi_change
        price_part == IF Abs(price_change) > 10
                      THEN 20 * Min2(20, Abs(price_change)) * Sign(price_change)
                      ELSE 40 * price_change
        volume_part == IF volume_change > volume_spike_threshold THEN Min2(400, volume_change)
                       ELSE IF volume_change > 100 THEN 200
                       ELSE IF volume_change > 50 THEN 100
                       ELSE 0
        oi_part == IF Abs(oi_change) > oi_spike_threshold
                   THEN Min2(200, 2 * Abs(oi_change)) * Sign(oi_change)
                   ELSE 4 * oi_change
        bonus == IF price_change > 0 /\ volume_change > 100 /\ oi_change > 20 THEN 200
                 ELSE IF price_change < 0 /\ volume_change > 100 /\ oi_change > 20 THEN -200
                 ELSE 0
    IN TruncDiv20(1000 + price_part + volume_part + oi_part + bonus)

\* _calculate_momentum_score for integer percentages; the running score is
\* kept times 20, the unit of volume_change / 20, oi_change / 5 and abs(oi_change) / 10
VisualScreenerAnalyzer_calculate_momentum_score(data) ==
    LET price_change == data.price_change
        volume_change == data.volume_change
        oi_change == data.oi_change
        price_part == IF Abs(price_change) > 10
                      THEN 20 * Min2(20, Abs(price_change)) * Sign(price_change)
                      ELSE 40 * price_change
        volume_part == IF volume_change > volume_spike_threshold THEN Min2(400, volume_change)
                       ELSE IF volume_change > 100 THEN 200
                       ELSE IF volume_change > 50 THEN 100
                       ELSE 0
        oi_part == IF Abs(oi_change) > oi_spike_threshold
                   THEN Min2(200, 2 * Abs(oi_change)) * Sign(oi_change)
                   ELSE 4 * oi_change
        bonus == IF price_change > 0 /\ volume_change > 100 /\ oi_change > 20 THEN 200
                 ELSE IF price_change < 0 /\ volume_change > 100 /\ oi_change > 20 THEN -200
                 ELSE 0
        score == 1000 + price_part + volume_part + oi_part + bonus
    IN Max2(0, Min2(100, TruncDiv20(score)))

\* faulty variant of _determine_bias: a score of 20 is already STRONG_SHORT
determine_bias_strong_short_at_20(data, momentum_score) ==
    IF momentum_score > 80 /\ data.price_change > 5 THEN "STRONG_LONG"
    ELSE IF momentum_score <= 20 /\ data.price_change < -5 THEN "STRONG_SHORT"
    ELSE IF momentum_score > 65 /\ data.price_change > 0 THEN "LONG"
    ELSE IF momentum_score < 35 /\ data.price_change < 0 THEN "SHORT"
    ELSE IF data.price_change > 3 /\ data.volume_change < 50 THEN "WEAK_LONG"
    ELSE IF data.price_change < -3 /\ data.volume_change < 50 THEN "WEAK_SHORT"
    ELSE "NEUTRAL"

VisualScreenerAnalyzer_determine_bias(data, momentum_score) ==
    IF momentum_score > 80 /\ data.price_change > 5 THEN "STRONG_LONG"
    ELSE IF momentum_score < 20 /\ data.price_change < -5 THEN "STRONG_SHORT"
    ELSE IF momentum_score > 65 /\ data.price_change > 0 THEN "LONG"
    ELSE IF momentum_score < 35 /\ data.price_change < 0 THEN "SHORT"
    ELSE IF data.price_change > 3 /\ data.volume_change < 50 THEN "WEAK_LONG"
    ELSE IF data.price_change < -3 /\ data.volume_change < 50 THEN "WEAK_SHORT"
    ELSE "NEUTRAL"

ScreenerData(sym, data, momentum_score, bias) ==
    [present |-> TRUE,
     symbol |-> sym,
     price_change_pct |-> data.price_change,
     volume_change_pct |-> data.volume_change,
     oi_change_pct |-> data.oi_change,
     momentum_score |-> momentum_score,
     bias |-> bias]

\* analyze_all_screeners, given what _extract_symbol_data returned: None when
\* the symbol is not listed or all three changes are 0
VisualScreenerAnalyzer_analyze_all_screeners(sym, data) ==
    IF ~data.present THEN None
    ELSE LET momentum_score == VisualScreenerAnalyzer_calculate_momentum_score(data)
         IN ScreenerData(sym, data, momentum_score,
                         VisualScreenerAnalyzer_determine_bias(data, momentum_score))

\* scan_top_movers: the symbols of the screeners in the order of the set
\* iteration, those with data sorted by momentum score, the first top_n of them
VisualScreenerAnalyzer_scan_top_movers(order, listing, top_n) ==
    LET data == [i \in 1..Len(order) |->
                    VisualScreenerAnalyzer_analyze_all_screeners(order[i], listing[order[i]])]
        found == FilterIdx(data, [i \in 1..Len(data) |-> data[i].present], 1)
    IN Take(StableSortBy(found, [i \in 1..Len(found) |-> -found[i].momentum_score]), top_n)

-----------------------------------------------------------------------------
(* MasterStrategy (src/src/strategies/master_strategy.py) *)

SeqMin(s) == CHOOSE x \in {s[i] : i \in DOMAIN s} : \A i \in DOMAIN s : x <= s[i]
SeqMax(s) == CHOOSE x \in {s[i] : i \in DOMAIN s} : \A i \in DOMAIN s : x >= s[i]

\* [c.price for c in clusters[:3]]
first_prices(clusters) ==
    LET top == Take(clusters, 3) IN [i \in 1..Len(top) |-> top[i].price]

\* faulty variant of _calculate_risk_reward: the take-profit targets are read
\* from the clusters of the trade's own side
risk_reward_own_side_targets(action, cp, liquidation) ==
    LET longs == liquidation.long_liquidations
        shorts == liquidation.short_liquidations
    IN IF action = "LONG"
       THEN <<IF longs # <<>> THEN SeqMin(first_prices(longs)) * 995 ELSE cp * 970,
              IF longs # <<>>
              THEN [i \in 1..Len(first_prices(longs)) |-> first_prices(longs)[i] * PriceScale]
              ELSE <<cp * 1020, cp * 1050, cp * 1100>> >>
       ELSE IF action = "SHORT"
       THEN <<IF shorts # <<>> THEN SeqMax(first_prices(shorts)) * 1005 ELSE cp * 1030,
              IF shorts # <<>>
              THEN [i \in 1..Len(first_prices(shorts)) |-> first_prices(shorts)[i] * PriceScale]
              ELSE <<cp * 980, cp * 950, cp * 900>> >>
       ELSE <<cp * PriceScale, <<cp * PriceScale>> >>

\* _calculate_risk_reward: <<stop_loss, take_profits>>, both times PriceScale
MasterStrategy_calculate_risk_reward(action, cp, liquidation) ==
    LET longs == liquidation.long_liquidations
        shorts == liquidation.short_liquidations
    IN IF action = "LONG"
       THEN <<IF longs # <<>> THEN SeqMin(first_prices(longs)) * 995 ELSE cp * 970,
              IF shorts # <<>>
              THEN [i \in 1..Len(first_prices(shorts)) |-> first_prices(shorts)[i] * PriceScale]
              ELSE <<cp * 1020, cp * 1050, cp * 1100>> >>
       ELSE IF action = "SHORT"
       THEN <<IF shorts # <<>> THEN SeqMax(first_prices(shorts)) * 1005 ELSE cp * 1030,
              IF longs # <<>>
              THEN [i \in 1..Len(first_prices(longs)) |-> first_prices(longs)[i] * PriceScale]
              ELSE <<cp * 980, cp * 950, cp * 900>> >>
       ELSE <<cp * PriceScale, <<cp * PriceScale>> >>

\* step 1 of _generate_signal: <<action, signal_strength, reasons>>
screener_step(scr) ==
    IF scr.bias \in {"STRONG_LONG", "LONG"} THEN <<"LONG", 20, <<"Visual screener bias">> >>
    ELSE IF scr.bias \in {"STRONG_SHORT", "SHORT"} THEN <<"SHORT", 20, <<"Visual screener bias">> >>
    ELSE <<"NEUTRAL", 0, <<>> >>

\* faulty variant of step 2: a RANGE liquidation direction leaves the action alone
liquidation_step_range_keeps_action(action, strength, liquidation) ==
    IF liquidation.direction = "UP" /\ action = "LONG"
    THEN <<action, strength + 30, liquidation.confidence, <<"Liquidations confirm UP direction">> >>
    ELSE IF liquidation.direction = "DOWN" /\ action = "SHORT"
    THEN <<action, strength + 30, liquidation.confidence, <<"Liquidations confirm DOWN direction">> >>
    ELSE IF liquidation.direction = "RANGE"
    THEN <<action, strength, "LOW", <<"Liquidations suggest range-bound market">> >>
    ELSE <<action, strength - 10, "LOW", <<"Screener and liquidations show conflicting signals">> >>

\* step 2: <<action, signal_strength, confidence, reasons>>
liquidation_step(action, strength, liquidation) ==
    IF liquidation.direction = "UP" /\ action = "LONG"
    THEN <<action, strength + 30, liquidation.confidence, <<"Liquidations confirm UP direction">> >>
    ELSE IF liquidation.direction = "DOWN" /\ action = "SHORT"
    THEN <<action, strength + 30, liquidation.confidence, <<"Liquidations confirm DOWN direction">> >>
    ELSE IF liquidation.direction = "RANGE"
    THEN <<"NEUTRAL", strength, "LOW", <<"Liquidations suggest range-bound market">> >>
    ELSE <<action, strength - 10, "LOW", <<"Screener and liquidations show conflicting signals">> >>

\* faulty variant of step 3: the action is translated to the direction that
\* confirm_direction_with_rsi knows
rsi_direction_up_down(action) ==
    IF action = "LONG" THEN "UP" ELSE IF action = "SHORT" THEN "DOWN" ELSE action

\* step 3: the direction handed to confirm_direction_with_rsi is the action
rsi_direction(action) == action

\* step 3: <<change of signal_strength, reasons>>
rsi_step(rsi_data, action) ==
    LET rsi_confirmation == RSIAnalyzer_confirm_direction_with_rsi(rsi_data, rsi_direction(action))
    IN IF rsi_confirmation.confidence = "HIGH" THEN <<20, rsi_confirmation.reasons>>
       ELSE IF rsi_confirmation.confidence = "MEDIUM" THEN <<10, rsi_confirmation.reasons>>
       ELSE <<-5, <<"RSI does not confirm direction">> >>

\* step 4: the confluence bonuses
confluence_bonus(scr, rsi_data) ==
    (IF scr.volume_change_pct > 300 /\ scr.oi_change_pct > 50 THEN 10 ELSE 0)
    + (IF rsi_data.confluence_score > 80 THEN 10 ELSE 0)

\* faulty variant of step 5: without the else branch the confidence of step 2 stays
final_confidence_without_else(signal_strength, step2_confidence) ==
    IF signal_strength >= 70 THEN "HIGH"
    ELSE IF signal_strength >= 50 THEN "MEDIUM"
    ELSE step2_confidence

\* step 5: the final confidence
final_confidence(signal_strength, step2_confidence) ==
    IF signal_strength >= 70 THEN "HIGH"
    ELSE IF signal_strength >= 50 THEN "MEDIUM"
    ELSE "LOW"

\* the cap of signal_strength
cap_strength(signal_strength) == Min2(100, Max2(0, signal_strength))

MasterStrategy_generate_signal(sym, cp, scr, liquidation, rsi_data, timestamp) ==
    LET s1 == screener_step(scr)
        s2 == liquidation_step(s1[1], s1[2], liquidation)
        action == s2[1]
        s3 == rsi_step(rsi_data, action)
        bonus == confluence_bonus(scr, rsi_data)
        signal_strength == s2[2] + s3[1] + bonus
        rr == MasterStrategy_calculate_risk_reward(action, cp, liquidation)
    IN [present |-> TRUE,
        symbol |-> sym,
        action |-> action,
        confidence |-> final_confidence(signal_strength, s2[3]),
        momentum_score |-> scr.momentum_score,
        liquidation_direction |-> liquidation.direction,
        rsi_status |-> rsi_data.status,
        current_price |-> cp,
        scale_in_zones |-> liquidation.scale_in_zones,
        stop_loss |-> rr[1],
        take_profit_targets |-> rr[2],
        signal_strength |-> cap_strength(signal_strength),
        reasons |-> s1[3] \o s2[4] \o s3[2]
                    \o (IF scr.volume_change_pct > 300 /\ scr.oi_change_pct > 50
                        THEN <<"High volume and OI spike">> ELSE <<>>)
                    \o (IF rsi_data.confluence_score > 80
                        THEN <<"Strong RSI confluence across timeframes">> ELSE <<>>),
        timestamp |-> timestamp]

\* RSI data of a symbol whose timeframes all read 50
default_rsi(sym) == RSIAnalyzer_analyze_rsi(sym, [tf \in {"4h"} |-> 50])

\* faulty variant of analyze_symbol: a missing RSI analysis is replaced by defaults
analyze_symbol_with_default_rsi(sym, cp, scr, liquidation, rsi_data, timestamp) ==
    IF ~scr.present THEN None
    ELSE IF ~liquidation.present THEN None
    ELSE IF ~rsi_data.present
    THEN MasterStrategy_generate_signal(sym, cp, scr, liquidation, default_rsi(sym), timestamp)
    ELSE MasterStrategy_generate_signal(sym, cp, scr, liquidation, rsi_data, timestamp)

\* analyze_symbol, given the results of its three steps; the result of a step
\* that raised or was not reached is None
MasterStrategy_analyze_symbol(sym, cp, scr, liquidation, rsi_data, timestamp) ==
    IF ~scr.present THEN None
    ELSE IF ~liquidation.present THEN None
    ELSE IF ~rsi_data.present THEN None
    ELSE MasterStrategy_generate_signal(sym, cp, scr, liquidation, rsi_data, timestamp)

\* scan_market skips the movers with momentum_score < 60
MinMomentum == 60

\* faulty variant of the end of scan_market: the weakest signals first
weakest_first(sigs, top_n) ==
    Take(StableSortBy(sigs, [i \in 1..Len(sigs) |-> sigs[i].signal_strength]), top_n)

\* the end of scan_market: sort by signal_strength, strongest first, keep top_n
strongest_first(sigs, top_n) ==
    Take(StableSortBy(sigs, [i \in 1..Len(sigs) |-> -sigs[i].signal_strength]), top_n)

\* scan_market as a function of the movers and of what analyze_symbol returns
\* for each symbol: movers below 60 are skipped, signals other than NEUTRAL
\* are collected, sorted and cut to top_n
MasterStrategy_scan_market(top_movers, analysis, top_n) ==
    LET moving == FilterIdx(top_movers,
                            [i \in 1..Len(top_movers) |->
                                top_movers[i].momentum_score >= MinMomentum], 1)
        found == [i \in 1..Len(moving) |-> analysis[moving[i].symbol]]
        collected == FilterIdx(found,
                               [i \in 1..Len(found) |->
                                   found[i].present /\ found[i].action # "NEUTRAL"], 1)
    IN strongest_first(collected, top_n)

-----------------------------------------------------------------------------
(* WhaleRadar (src/src/main.py) and TelegramNotifier (src/src/api/telegram_bot.py) *)

\* self.strategy.scan_market(top_n=10), which asks for top_n * 2 movers
TopN == 10

\* _scan_market keeps the signals worth an alert
MinAlertStrength == 60

WhaleRadar_scan_market_filter(sigs) ==
    FilterIdx(sigs, [i \in 1..Len(sigs) |->
                        /\ sigs[i].confidence \in {"HIGH", "MEDIUM"}
                        /\ sigs[i].signal_strength >= MinAlertStrength], 1)

\* signal.timestamp.hour
HoursPerDay == 24
hour_of(t) == (t \div TicksPerHour) % HoursPerDay

\* faulty variant of the alert key: the hour of the signal is left out
alert_key_without_hour(sig) == <<sig.symbol, sig.action, 0>>

\* f"{signal.symbol}_{signal.action}_{signal.timestamp.hour}"
alert_key(sig) == <<sig.symbol, sig.action, hour_of(sig.timestamp)>>

\* cleanup_old_alerts: keep the alerts younger than one hour
TelegramNotifier_cleanup_old_alerts(alerts, current_time) ==
    LET young == {k \in DOMAIN alerts : current_time - alerts[k] < TicksPerHour}
    IN [k \in young |-> alerts[k]]

-----------------------------------------------------------------------------
(* SignalValidator (src/src/utils/validators.py) *)

zones_total(zones) == SumSeq([i \in 1..Len(zones) |-> zones[i].position_pct])

\* validate_symbol, for the symbols of the model: alphanumeric, 2 to 10 characters
validate_symbol(sym) == sym \in Symbols

\* validate_signal: the set of errors; the signal is valid when it is empty
SignalValidator_validate_signal(sig) ==
    LET cp == sig.current_price * PriceScale
        tps == {sig.take_profit_targets[i] : i \in DOMAIN sig.take_profit_targets}
        total_pct == zones_total(sig.scale_in_zones)
    IN (IF ~validate_symbol(sig.symbol) THEN {"Invalid symbol"} ELSE {})
       \cup (IF sig.action \notin {"LONG", "SHORT", "NEUTRAL"} THEN {"Invalid action"} ELSE {})
       \cup (IF sig.confidence \notin {"HIGH", "MEDIUM", "LOW"} THEN {"Invalid confidence"} ELSE {})
       \cup (IF sig.current_price < 0 \/ sig.current_price > 1000000
             THEN {"Invalid current price"} ELSE {})
       \cup (IF sig.signal_strength < 0 \/ sig.signal_strength > 100
             THEN {"Invalid signal strength"} ELSE {})
       \cup (IF sig.action = "LONG" /\ sig.stop_loss >= cp
             THEN {"Stop loss must be below current price for LONG"} ELSE {})
       \cup (IF sig.action = "LONG" /\ \E tp \in tps : tp <= cp
             THEN {"Take profits must be above current price for LONG"} ELSE {})
       \cup (IF sig.action = "SHORT" /\ sig.stop_loss <= cp
             THEN {"Stop loss must be above current price for SHORT"} ELSE {})
       \cup (IF sig.action = "SHORT" /\ \E tp \in tps : tp >= cp
             THEN {"Take profits must be below current price for SHORT"} ELSE {})
       \cup (IF sig.scale_in_zones # <<>> /\ ~(95 <= total_pct /\ total_pct <= 105)
             THEN {"Scale-in percentages must sum to ~100%"} ELSE {})

-----------------------------------------------------------------------------
(* The bounded inputs of the signal fusion *)

\* the k band levels nearest to the price on the side's own side, all of one value
PrefixMap(cp, side, k, value) ==
    [p \in {BandPrice(cp, Dir(side), i) : i \in 1..k} |-> value]

LevelCounts == {0, 1, 2, MaxLevels}

PrefixMaps(cp, side) ==
    {PrefixMap(cp, side, k, v) : k \in LevelCounts, v \in {MinLiquidationValue, BigValue}}

\* the heatmaps of the fusion: one timeframe with data, one without
SignalHeatmaps(cp) ==
    {<<DataResponse(l, s), NoDataResponse>> :
        l \in PrefixMaps(cp, "long"), s \in PrefixMaps(cp, "short")}

\* what get_rsi_multi_timeframe returns: the 12h value follows the 1d value
RsiValues ==
    {[tf \in {"1h", "4h", "12h", "1d"} |->
         IF tf = "1h" THEN h1 ELSE IF tf = "4h" THEN h4 ELSE d1] :
        h1 \in {25, 75}, h4 \in {25, 50, 75}, d1 \in {25, 75}}

\* every bias, with volume and open interest changes on both sides of the
\* bonus thresholds (300, 50)
FreeScreenerData(sym) ==
    {ScreenerData(sym, [price_change |-> 0, volume_change |-> vo[1], oi_change |-> vo[2]], 50, b) :
        b \in {"STRONG_LONG", "LONG", "WEAK_LONG", "NEUTRAL", "WEAK_SHORT", "SHORT", "STRONG_SHORT"},
        vo \in {<<500, 60>>, <<300, 50>>}}

-----------------------------------------------------------------------------
(* SpecSignal: MasterStrategy._generate_signal as a function of its inputs *)

InitSignal ==
    /\ pc = "idle"
    /\ symbol = "XYZ"
    /\ current_price = get_current_price("XYZ")
    /\ heatmap = <<FailedResponse, FailedResponse>>
    /\ liq = None
    /\ deep = None
    /\ NoSignalState

\* the three analyses of one symbol are at hand
DrawSignalInputs ==
    /\ pc = "idle"
    /\ \E sym \in Symbols :
         \E h \in SignalHeatmaps(get_current_price(sym)),
            scr \in FreeScreenerData(sym),
            rv \in RsiValues :
            /\ symbol' = sym
            /\ current_price' = get_current_price(sym)
            /\ heatmap' = h
            /\ liq' = LiquidationAnalyzer_analyze_liquidations(sym, get_current_price(sym), h)
            /\ screener' = scr
            /\ rsi' = RSIAnalyzer_analyze_rsi(sym, rv)
    /\ pc' = "inputs"
    /\ UNCHANGED <<deep, signal, loop_vars, call_vars>>

\* MasterStrategy._generate_signal(symbol, current_price, screener, liquidation, rsi)
GenerateSignal ==
    /\ pc = "inputs"
    /\ signal' = MasterStrategy_generate_signal(symbol, current_price, screener, liq, rsi, now)
    /\ pc' = "generated"
    /\ UNCHANGED <<symbol, current_price, heatmap, liq, deep, screener, rsi, loop_vars, call_vars>>

NextSignalInputs ==
    /\ pc = "generated"
    /\ pc' = "idle"
    /\ symbol' = "XYZ"
    /\ current_price' = get_current_price("XYZ")
    /\ heatmap' = <<FailedResponse, FailedResponse>>
    /\ liq' = None
    /\ screener' = None
    /\ rsi' = None
    /\ signal' = None
    /\ UNCHANGED <<deep, loop_vars, call_vars>>

NextSignal ==
    \/ DrawSignalInputs
    \/ GenerateSignal
    \/ NextSignalInputs

SpecSignal == InitSignal /\ [][NextSignal]_vars

-----------------------------------------------------------------------------
(* Properties of the signal fusion, checked under SpecSignal *)

signal_targets == {signal.take_profit_targets[i] : i \in DOMAIN signal.take_profit_targets}

\* C1: every signal of _generate_signal has its stop loss and take-profit
\* targets on the right side of the current price: LONG has the stop below
\* and every target above, SHORT has the stop above and every target below,
\* NEUTRAL has stop_loss = take_profit_targets[0] = current_price.
C1_RiskLevelsOnTheRightSide ==
    signal.present =>
        LET cp == signal.current_price * PriceScale
        IN /\ signal.action = "LONG" =>
                signal.stop_loss < cp /\ \A tp \in signal_targets : tp > cp
           /\ signal.action = "SHORT" =>
                signal.stop_loss > cp /\ \A tp \in signal_targets : tp < cp
           /\ signal.action = "NEUTRAL" =>
                signal.stop_loss = cp /\ signal.take_profit_targets[1] = cp

\* a LONG signal with clusters on both sides of the price
C1_Witness ==
    /\ signal.present
    /\ signal.action = "LONG"
    /\ liq.long_liquidations # <<>>
    /\ liq.short_liquidations # <<>>

\* the sub-signals agree strongly on an upward move
strong_long_agreement ==
    /\ signal.present
    /\ screener.bias = "STRONG_LONG"
    /\ liq.direction = "UP"
    /\ liq.confidence = "HIGH"
    /\ RSIAnalyzer_confirm_direction_with_rsi(rsi, "UP").confidence = "HIGH"
    /\ rsi.confluence_score > 80
    /\ screener.volume_change_pct > 300
    /\ screener.oi_change_pct > 50

\* C4: when screener (STRONG_LONG), liquidations (UP, HIGH) and RSI (confirms
\* UP with HIGH, confluence > 80) agree and volume > 300, oi > 50, the signal
\* is LONG with signal_strength 100 and confidence HIGH.
C4_StrongAgreementIsFullStrength ==
    strong_long_agreement =>
        /\ signal.action = "LONG"
        /\ signal.signal_strength = 100
        /\ signal.confidence = "HIGH"

\* C5: a RANGE liquidation direction gives a NEUTRAL signal whatever the
\* screener bias and the RSI input are.
C5_RangeForcesNeutral ==
    (signal.present /\ liq.direction = "RANGE") => signal.action = "NEUTRAL"

\* a STRONG_LONG bias overruled by a RANGE of clusters on both sides
C5_Witness ==
    /\ signal.present
    /\ liq.direction = "RANGE"
    /\ liq.long_liquidations # <<>>
    /\ screener.bias = "STRONG_LONG"
    /\ signal.action = "NEUTRAL"

\* C6: signal_strength lies in 0..100 and the confidence follows from it
\* alone: HIGH iff >= 70, MEDIUM iff 50..69, LOW otherwise; the confidence of
\* the liquidation analysis does not survive.
C6_ConfidenceFromStrengthAlone ==
    signal.present =>
        /\ signal.signal_strength \in 0..100
        /\ signal.confidence = "HIGH" <=> signal.signal_strength >= 70
        /\ signal.confidence = "MEDIUM" <=>
               (50 <= signal.signal_strength /\ signal.signal_strength < 70)
        /\ signal.confidence = "LOW" <=> signal.signal_strength < 50

\* step 2 took HIGH from the liquidation analysis and the result is not HIGH
C6_Witness ==
    /\ signal.present
    /\ signal.action = "LONG"
    /\ liq.direction = "UP"
    /\ liq.confidence = "HIGH"
    /\ signal.confidence # "HIGH"

-----------------------------------------------------------------------------
(* Properties of the liquidation analyzers, checked under SpecLiq *)

within_5_of_100(zones) == 95 <= zones_total(zones) /\ zones_total(zones) <= 105

\* C2: a non-empty scale-in zone list of either analyzer has position
\* percentages that sum to a value within 5 of 100, for every number of
\* candidate clusters.
C2_ZonePercentagesSumTo100 ==
    /\ (liq.present /\ liq.scale_in_zones # <<>>) => within_5_of_100(liq.scale_in_zones)
    /\ (deep.present /\ deep.scale_in_zones # <<>>) => within_5_of_100(deep.scale_in_zones)

\* no timeframe yields a level: each request failed or returned empty maps
no_levels ==
    \A i \in DOMAIN heatmap :
        \/ heatmap[i].status = "fail"
        \/ heatmap[i].longs = EmptyMap /\ heatmap[i].shorts = EmptyMap

\* C8: when no timeframe yields any liquidation level, analyze_liquidations
\* and analyze_all_liquidation_levels both return None.
C8_NoLevelsGiveNone ==
    no_levels =>
        /\ pc \in {"analysed", "deep_analysed"} => liq = None
        /\ pc = "deep_analysed" => deep = None

\* C9: in every analysis result each long-side cluster lies below and each
\* short-side cluster above the current price, for the clusters of
\* LiquidationAnalysis and the major clusters of DeepLiquidationAnalysis.
C9_ClustersOnTheirSide ==
    /\ liq.present =>
         /\ \A i \in DOMAIN liq.long_liquidations :
                liq.long_liquidations[i].price < liq.current_price
         /\ \A i \in DOMAIN liq.short_liquidations :
                liq.short_liquidations[i].price > liq.current_price
    /\ deep.present =>
         /\ \A i \in DOMAIN deep.major_long_clusters :
                deep.major_long_clusters[i].price < deep.current_price
         /\ \A i \in DOMAIN deep.major_short_clusters :
                deep.major_short_clusters[i].price > deep.current_price

\* exactly 4 clusters, all below the price, at distinct prices
four_supports(clusters, cp) ==
    /\ Len(clusters) = 4
    /\ \A i \in 1..4 : clusters[i].price < cp
    /\ \A i, j \in 1..4 : i # j => clusters[i].price # clusters[j].price

\* closest support first, with the percentages 30, 30, 25, 15
descending_30_30_25_15(zones) ==
    /\ Len(zones) = 4
    /\ \A i \in 1..3 : zones[i].price > zones[i + 1].price
    /\ [i \in 1..4 |-> zones[i].position_pct] = <<30, 30, 25, 15>>

\* C10: for both analyzers, with a long-side direction and exactly 4 long
\* clusters below the price at distinct prices (within 20% of the price for
\* LiquidationAnalyzer), the scale-in zones are in strictly descending price
\* order with the percentages 30, 30, 25, 15.
C10_FourSupportsDescending ==
    /\ (/\ liq.present
        /\ liq.direction = "UP"
        /\ four_supports(liq.long_liquidations, liq.current_price)
        /\ \A i \in 1..4 : liq.long_liquidations[i].distance_from_price_pct
                               < LevelBandPct * liq.current_price)
       => descending_30_30_25_15(liq.scale_in_zones)
    /\ (/\ deep.present
        /\ deep.recommended_direction = "LONG"
        /\ four_supports(deep.major_long_clusters, deep.current_price))
       => descending_30_30_25_15(deep.scale_in_zones)

-----------------------------------------------------------------------------
(* The bounded inputs of the scan loop *)

Metric(p, v, o) == [present |-> TRUE, price_change |-> p, volume_change |-> v, oi_change |-> o]
\* the symbol is in no screener, or all its changes are 0
NoMetric == [present |-> FALSE, price_change |-> 0, volume_change |-> 0, oi_change |-> 0]
BullMetric == Metric(10, 500, 60)
BearMetric == Metric(-20, 0, -60)
ScanMetrics == {NoMetric, BullMetric, BearMetric}

\* the orders in which the set of symbols can be iterated
SymbolOrders == {<<"BTC", "XYZ">>, <<"XYZ", "BTC">>}

\* every request failed; no level; shorts outweigh 4 supports; shorts outweigh
\* MaxLevels supports
ScanHeatmaps(cp) ==
    {<<FailedResponse, FailedResponse>>,
     <<DataResponse(EmptyMap, EmptyMap), NoDataResponse>>,
     <<DataResponse(PrefixMap(cp, "long", MaxEntries, MinLiquidationValue),
                    PrefixMap(cp, "short", 2, BigValue)), NoDataResponse>>,
     <<DataResponse(PrefixMap(cp, "long", MaxLevels, MinLiquidationValue),
                    PrefixMap(cp, "short", 2, BigValue)), NoDataResponse>>}

\* no RSI value; all timeframes oversold; mixed values
ScanRsiValues ==
    {EmptyMap,
     [tf \in {"1h", "4h", "12h", "1d"} |-> 25],
     [tf \in {"1h", "4h", "12h", "1d"} |-> IF tf = "4h" THEN 50 ELSE 75]}

\* the step of analyze_symbol that raises, 0 for none
RaisingSteps == 0..3

-----------------------------------------------------------------------------
(* Spec: the scan loop WhaleRadar.run *)

NoSymbolState ==
    /\ symbol = "XYZ"
    /\ current_price = get_current_price("XYZ")
    /\ heatmap = <<FailedResponse, FailedResponse>>
    /\ liq = None
    /\ deep = None
    /\ screener = None
    /\ rsi = None
    /\ signal = None

Init ==
    /\ pc = "loop"
    /\ NoSymbolState
    /\ movers = <<>>
    /\ signals = <<>>
    /\ sent_alerts = EmptyMap
    /\ now = 0
    /\ outbox = <<>>
    /\ NoCallState

symbol_vars == <<symbol, current_price, heatmap, liq, deep, screener, rsi, signal>>

\* run starts an iteration; scan_market gets the top movers
ScanTopMovers ==
    /\ pc = "loop"
    /\ \E order \in SymbolOrders, listing \in [Symbols -> ScanMetrics] :
           movers' = VisualScreenerAnalyzer_scan_top_movers(order, listing, TopN * 2)
    /\ signals' = <<>>
    /\ outbox' = <<>>
    /\ pc' = "movers"
    /\ UNCHANGED <<symbol_vars, sent_alerts, now, call_vars>>

\* a screener request of scan_top_movers raises: the exception leaves
\* _scan_market and reaches the handler of run
ScanRaises ==
    /\ pc = "loop"
    /\ pc' = "failed"
    /\ signals' = <<>>
    /\ outbox' = <<>>
    /\ UNCHANGED <<symbol_vars, movers, sent_alerts, now, call_vars>>

\* scan_market: if mover.momentum_score < 60: continue
SkipMover ==
    /\ pc = "movers"
    /\ movers # <<>>
    /\ Head(movers).momentum_score < MinMomentum
    /\ movers' = Tail(movers)
    /\ UNCHANGED <<pc, symbol_vars, signals, sent_alerts, now, outbox, call_vars>>

\* scan_market: _get_current_price and analyze_symbol for the next mover
AnalyzeSymbol ==
    /\ pc = "movers"
    /\ movers # <<>>
    /\ Head(movers).momentum_score >= MinMomentum
    /\ LET sym == Head(movers).symbol
           cp == get_current_price(sym)
       IN \E m \in ScanMetrics, h \in ScanHeatmaps(cp), rv \in ScanRsiValues,
             raising \in RaisingSteps :
            LET scr == IF raising = 1 THEN None
                       ELSE VisualScreenerAnalyzer_analyze_all_screeners(sym, m)
                liquidation == IF ~scr.present \/ raising = 2 THEN None
                               ELSE LiquidationAnalyzer_analyze_liquidations(sym, cp, h)
                rsi_data == IF ~liquidation.present \/ raising = 3 THEN None
                            ELSE RSIAnalyzer_analyze_rsi(sym, rv)
            IN /\ symbol' = sym
               /\ current_price' = cp
               /\ heatmap' = IF ~scr.present \/ raising = 2
                             THEN <<FailedResponse, FailedResponse>> ELSE h
               /\ screener' = scr
               /\ liq' = liquidation
               /\ rsi' = rsi_data
               /\ signal' = MasterStrategy_analyze_symbol(sym, cp, scr, liquidation, rsi_data, now)
    /\ pc' = "analysed"
    /\ UNCHANGED <<deep, loop_vars, call_vars>>

\* scan_market: if signal and signal.action != "NEUTRAL": signals.append(signal)
CollectSignal ==
    /\ pc = "analysed"
    /\ signals' = IF signal.present /\ signal.action # "NEUTRAL"
                  THEN Append(signals, signal) ELSE signals
    /\ movers' = Tail(movers)
    /\ pc' = "movers"
    /\ symbol' = "XYZ"
    /\ current_price' = get_current_price("XYZ")
    /\ heatmap' = <<FailedResponse, FailedResponse>>
    /\ liq' = None
    /\ screener' = None
    /\ rsi' = None
    /\ signal' = None
    /\ UNCHANGED <<deep, sent_alerts, now, outbox, call_vars>>

\* scan_market returns signals[:top_n], strongest first, and _scan_market
\* filters them
ReturnSignals ==
    /\ pc = "movers"
    /\ movers = <<>>
    /\ signals' = WhaleRadar_scan_market_filter(strongest_first(signals, TopN))
    /\ pc' = "sending"
    /\ UNCHANGED <<symbol_vars, movers, sent_alerts, now, outbox, call_vars>>

\* send_batch_alerts: send_signal_alert for the next signal of the batch
SendSignalAlert ==
    /\ pc = "sending"
    /\ signals # <<>>
    /\ LET sig == Head(signals)
           sent(outcome) == Append(outbox, [signal |-> sig, result |-> outcome])
       IN IF alert_key(sig) \in DOMAIN sent_alerts
          THEN /\ outbox' = sent("duplicate")
               /\ UNCHANGED sent_alerts
          ELSE \/ /\ outbox' = sent("sent")
                  /\ sent_alerts' = [k \in DOMAIN sent_alerts \cup {alert_key(sig)} |->
                                        IF k = alert_key(sig) THEN now ELSE sent_alerts[k]]
               \/ /\ outbox' = sent("telegram_error")
                  /\ UNCHANGED sent_alerts
    /\ signals' = Tail(signals)
    /\ UNCHANGED <<pc, symbol_vars, movers, now, call_vars>>

\* send_signal_alert raises an exception other than TelegramError: it leaves
\* send_batch_alerts and reaches the handler of run
SendRaises ==
    /\ pc = "sending"
    /\ signals # <<>>
    /\ alert_key(Head(signals)) \notin DOMAIN sent_alerts
    /\ pc' = "failed"
    /\ UNCHANGED <<symbol_vars, movers, signals, sent_alerts, now, outbox, call_vars>>

\* run: self.notifier.cleanup_old_alerts() after the batch
CleanupOldAlerts ==
    /\ pc = "sending"
    /\ signals = <<>>
    /\ sent_alerts' = TelegramNotifier_cleanup_old_alerts(sent_alerts, now)
    /\ pc' = "sleep"
    /\ UNCHANGED <<symbol_vars, movers, signals, now, outbox, call_vars>>

\* run: asyncio.sleep(self.scan_interval), one tick
Sleep ==
    /\ pc = "sleep"
    /\ now < MaxTime
    /\ now' = now + 1
    /\ pc' = "loop"
    /\ UNCHANGED <<symbol_vars, movers, signals, sent_alerts, outbox, call_vars>>

\* run: the except branch: send_error_alert and asyncio.sleep(60), which
\* may or may not reach the next tick
HandleLoopError ==
    /\ pc = "failed"
    /\ \E d \in {0, 1} :
          /\ now + d <= MaxTime
          /\ now' = now + d
    /\ pc' = "loop"
    /\ UNCHANGED <<symbol_vars, movers, signals, sent_alerts, outbox, call_vars>>

Next ==
    \/ ScanTopMovers
    \/ ScanRaises
    \/ SkipMover
    \/ AnalyzeSymbol
    \/ CollectSignal
    \/ ReturnSignals
    \/ SendSignalAlert
    \/ SendRaises
    \/ CleanupOldAlerts
    \/ Sleep
    \/ HandleLoopError

Spec == Init /\ [][Next]_vars

-----------------------------------------------------------------------------
(* Properties of the scan loop, checked under Spec *)

\* C3: in the scan loop a signal for which validate_signal reports an error
\* is never passed to send_signal_alert.
C3_InvalidSignalsAreNotSent ==
    \A i \in DOMAIN outbox : SignalValidator_validate_signal(outbox[i].signal) = {}

all_analyses_present == screener.present /\ liq.present /\ rsi.present

\* C7: analyze_symbol returns a signal only when the screener, liquidation
\* and RSI analyses are all present; when one of them is absent or its step
\* raised, the result is None.
C7_SignalOnlyFromThreeAnalyses ==
    pc = "analysed" =>
        /\ signal.present => all_analyses_present
        /\ ~all_analyses_present => signal = None

\* the RSI analysis alone is missing and no signal is returned
C7_Witness ==
    /\ pc = "analysed"
    /\ screener.present
    /\ liq.present
    /\ ~rsi.present
    /\ signal = None

-----------------------------------------------------------------------------
(* SpecCalls: direct calls of single methods of the analyzers *)

\* _distribute_position is called with 1..MaxNumEntries entries
MaxNumEntries == 20

MajorCluster(cp, price, value) ==
    [price |-> price, value_usd |-> value,
     distance_pct |-> distance_pct(price, cp), timeframe |-> "12h"]

\* candidate clusters of one side: 2% away, 4% away, 30% away, and 2% away on
\* the other side of the price
CandidateClusters(cp, side) ==
    {MajorCluster(cp, BandPrice(cp, Dir(side), 1), MinLiquidationValue),
     MajorCluster(cp, BandPrice(cp, Dir(side), 2), BigValue),
     MajorCluster(cp, FarPrice(cp, Dir(side)), BigValue),
     MajorCluster(cp, BandPrice(cp, -Dir(side), 1), SmallValue)}

\* cluster lists of up to 2 clusters, in any order
ClusterLists(cp, side) ==
    {<<>>}
    \cup {<<c>> : c \in CandidateClusters(cp, side)}
    \cup {<<c, d>> : c \in CandidateClusters(cp, side), d \in CandidateClusters(cp, side)}

\* <<total_longs, total_shorts>>: imbalance 0 (no level), 0, 72.3, -72.3, 30,
\* -30, 32, -32, 100, -100
TotalPairs ==
    {<<0, 0>>, <<1000, 1000>>, <<277, 1723>>, <<1723, 277>>, <<35, 65>>, <<65, 35>>,
     <<34, 66>>, <<66, 34>>, <<0, 1000>>, <<1000, 0>>}

InitCalls ==
    /\ pc = "idle"
    /\ symbol = "XYZ"
    /\ current_price = get_current_price("XYZ")
    /\ heatmap = <<FailedResponse, FailedResponse>>
    /\ liq = None
    /\ deep = None
    /\ NoSignalState

all_but_call == <<symbol, current_price, heatmap, liq, deep, screener, rsi, signal, loop_vars>>

\* _predict_whale_target(long_clusters, short_clusters, imbalance, current_price)
CallPredictWhaleTarget ==
    /\ pc = "idle"
    /\ \E sym \in Symbols, totals \in TotalPairs :
         \E long_clusters \in ClusterLists(get_current_price(sym), "long"),
            short_clusters \in ClusterLists(get_current_price(sym), "short") :
            /\ call' = [fn |-> "_predict_whale_target",
                        long_clusters |-> long_clusters,
                        short_clusters |-> short_clusters,
                        total_longs |-> totals[1],
                        total_shorts |-> totals[2],
                        current_price |-> get_current_price(sym)]
            /\ result' = DeepLiquidationAnalyzer_predict_whale_target(
                             long_clusters, short_clusters, totals[1], totals[2],
                             get_current_price(sym))
    /\ pc' = "returned"
    /\ UNCHANGED all_but_call

\* _distribute_position(num_entries)
CallDistributePosition ==
    /\ pc = "idle"
    /\ \E n \in 1..MaxNumEntries :
          /\ call' = [fn |-> "_distribute_position", num_entries |-> n]
          /\ result' = LiquidationAnalyzer_distribute_position(n)
    /\ pc' = "returned"
    /\ UNCHANGED all_but_call

\* the caller drops the result
ForgetCall ==
    /\ pc = "returned"
    /\ pc' = "idle"
    /\ call' = NoCall
    /\ result' = None
    /\ UNCHANGED all_but_call

\* the largest change of a metric, in percent
MaxChange == 1000

\* price, volume and open-interest changes around the thresholds of the scorer
\* and of the bias, and far beyond them
PriceChanges == {-MaxChange, -20, -11, -10, -6, -5, -4, -3, 0, 3, 4, 5, 6, 10, 11, 20, MaxChange}
VolumeChanges == {-MaxChange, 0, 49, 50, 51, 100, 101, 200, 201, 300, 400, 401, 500, MaxChange}
OiChanges == {-MaxChange, -100, -51, -50, -30, -20, 0, 20, 21, 50, 51, 60, 100, MaxChange}

\* momentum_score = self._calculate_momentum_score(data), then
\* bias = self._determine_bias(data, momentum_score)
CallCalculateMomentumScore ==
    /\ pc = "idle"
    /\ \E p \in PriceChanges, v \in VolumeChanges, o \in OiChanges :
          LET data == Metric(p, v, o)
              momentum_score == VisualScreenerAnalyzer_calculate_momentum_score(data)
          IN /\ call' = [fn |-> "_calculate_momentum_score", data |-> data]
             /\ result' = [momentum_score |-> momentum_score,
                           bias |-> VisualScreenerAnalyzer_determine_bias(data, momentum_score)]
    /\ pc' = "returned"
    /\ UNCHANGED all_but_call

AllTimeframes == {"5m", "15m", "1h", "4h", "12h", "1d", "1w"}
ImportantTimeframes == {"1h", "4h", "12h", "1d"}

\* RSI values on both sides of the oversold and overbought thresholds
RsiLevels == {25, rsi_oversold, rsi_oversold + 1, 50, rsi_overbought - 1, rsi_overbought, 75}

\* the results of get_rsi_multi_timeframe: the four timeframes of the status
\* with every level; any set of timeframes, each oversold or overbought; and
\* the values 25, 28, 30, 35
StatusRsiValues ==
    [ImportantTimeframes -> RsiLevels]
    \cup UNION {[D -> {25, 75}] : D \in SUBSET AllTimeframes}
    \cup {[tf \in ImportantTimeframes |->
              IF tf = "1h" THEN 25 ELSE IF tf = "4h" THEN 28 ELSE IF tf = "12h" THEN 30 ELSE 35]}

\* _determine_rsi_status(rsi_values)
CallDetermineRsiStatus ==
    /\ pc = "idle"
    /\ \E rsi_values \in StatusRsiValues :
          /\ call' = [fn |-> "_determine_rsi_status", rsi_values |-> rsi_values]
          /\ result' = RSIAnalyzer_determine_rsi_status(rsi_values)
    /\ pc' = "returned"
    /\ UNCHANGED all_but_call

RsiStatuses == {"OVERSOLD", "OVERBOUGHT", "WEAK", "STRONG", "NEUTRAL"}

\* the directions a caller proposes: UP, DOWN, and the LONG of MasterStrategy
ProposedDirections == {"UP", "DOWN", "LONG"}

\* RSIData with every status and with the 1h, 4h and 1d values on both sides
\* of the thresholds of confirm_direction_with_rsi
ConfirmRsiData ==
    {[RSIAnalyzer_analyze_rsi("XYZ",
          [tf \in ImportantTimeframes |->
              IF tf = "1h" THEN h1 ELSE IF tf = "4h" THEN h4
              ELSE IF tf = "12h" THEN h12 ELSE d1]) EXCEPT !.status = st] :
        h1 \in {25, 29, 30, 50, 70, 71, 75},
        h4 \in {25, 34, 35, 44, 45, 50, 55, 56, 65, 66, 75},
        h12 \in {25, 50, 75},
        d1 \in {25, 39, 40, 50, 60, 61, 75},
        st \in RsiStatuses}

\* confirm_direction_with_rsi(rsi_data, proposed_direction)
CallConfirmDirectionWithRsi ==
    /\ pc = "idle"
    /\ \E rsi_data \in ConfirmRsiData, proposed_direction \in ProposedDirections :
          /\ call' = [fn |-> "confirm_direction_with_rsi",
                      rsi_data |-> rsi_data,
                      proposed_direction |-> proposed_direction]
          /\ result' = RSIAnalyzer_confirm_direction_with_rsi(rsi_data, proposed_direction)
    /\ pc' = "returned"
    /\ UNCHANGED all_but_call

-----------------------------------------------------------------------------
(* RetryStrategy (src/src/utils/error_handler.py) *)

\* RetryStrategy(max_retries) with 1..MaxRetries attempts; the default is 3
MaxRetries == 3

\* what one call of the wrapped function does: it returns, or it raises
\* RateLimitError, APIError with a status code 500, 404 or None, a timeout, a
\* connection error, or another exception
Outcomes == {"ok", "RateLimitError", "APIError_500", "APIError_404", "APIError_None",
             "TimeoutError", "ConnectionError", "ValueError"}

\* faulty variant: every APIError is retried
retries_every_api_error(outcome) ==
    outcome \in {"RateLimitError", "APIError_500", "APIError_404", "APIError_None",
                 "TimeoutError", "ConnectionError"}

\* the except clauses that sleep and go on with the loop: RateLimitError,
\* APIError with 500 <= status_code < 600, asyncio.TimeoutError, ConnectionError
RetryStrategy_retries(outcome) ==
    outcome \in {"RateLimitError", "APIError_500", "TimeoutError", "ConnectionError"}

\* execute_with_retry(func): before the first attempt
CallExecuteWithRetry ==
    /\ pc = "idle"
    /\ \E max_retries \in 1..MaxRetries :
          call' = [fn |-> "execute_with_retry", max_retries |-> max_retries,
                   attempt |-> 0, outcomes |-> <<>>]
    /\ result' = None
    /\ pc' = "retrying"
    /\ UNCHANGED all_but_call

\* one pass of the loop "for attempt in range(self.max_retries)": the call of
\* func and the except clause that handles its outcome
RetryAttempt ==
    /\ pc = "retrying"
    /\ call.attempt < call.max_retries
    /\ \E outcome \in Outcomes :
          LET called == [call EXCEPT !.outcomes = Append(@, outcome)]
          IN IF outcome = "ok"
             THEN /\ call' = called
                  /\ result' = [raised |-> FALSE, value |-> "Success"]
                  /\ pc' = "returned"
             ELSE IF RetryStrategy_retries(outcome)
             THEN /\ call' = [called EXCEPT !.attempt = @ + 1]
                  /\ result' = None
                  /\ pc' = "retrying"
             ELSE /\ call' = called
                  /\ result' = [raised |-> TRUE, value |-> outcome]
                  /\ pc' = "returned"
    /\ UNCHANGED all_but_call

\* after the loop: raise WhaleRadarError(f"Max retries ({self.max_retries}) exceeded")
RetriesExhausted ==
    /\ pc = "retrying"
    /\ call.attempt = call.max_retries
    /\ result' = [raised |-> TRUE, value |-> "WhaleRadarError"]
    /\ pc' = "returned"
    /\ UNCHANGED <<call, all_but_call>>

-----------------------------------------------------------------------------
(* RateLimiter (src/src/utils/validators.py) and CoinGlassClient._rate_limit *)

\* the clock of the limiter counts ticks of 1 / TicksPerSecond seconds up to MaxClock
TicksPerSecond == 2
MaxClock == 4
\* RateLimiter(calls_per_second)
CallsPerSecond == 2
\* the requests in flight
MaxRequests == 4

\* faulty variant of can_make_call: the limit itself is allowed
can_make_call_at_limit(call_times, clock) ==
    LET kept == FilterIdx(call_times,
                          [i \in 1..Len(call_times) |-> clock - call_times[i] < TicksPerSecond], 1)
    IN [call_times |-> kept, allowed |-> Len(kept) <= CallsPerSecond]

\* can_make_call: the call times younger than 1 second are kept, and the
\* answer is len(self.call_times) < self.calls_per_second
RateLimiter_can_make_call(call_times, clock) ==
    LET kept == FilterIdx(call_times,
                          [i \in 1..Len(call_times) |-> clock - call_times[i] < TicksPerSecond], 1)
    IN [call_times |-> kept, allowed |-> Len(kept) < CallsPerSecond]

\* record_call: self.call_times.append(time.time())
RateLimiter_record_call(call_times, clock) == Append(call_times, clock)

\* a client with a new limiter and up to MaxRequests requests that have not
\* reached _rate_limit yet; recorded is the history of record_call
CallRateLimit ==
    /\ pc = "idle"
    /\ \E n \in 1..MaxRequests :
          call' = [fn |-> "_rate_limit", call_times |-> <<>>, clock |-> 0,
                   new |-> n, sleeping |-> 0, raised |-> 0, recorded |-> <<>>]
    /\ result' = None
    /\ pc' = "limiting"
    /\ UNCHANGED all_but_call

\* _rate_limit of one request up to its first await: can_make_call, then
\* record_call or asyncio.sleep(0.1)
RateLimitEnter ==
    /\ pc = "limiting"
    /\ call.new > 0
    /\ LET check == RateLimiter_can_make_call(call.call_times, call.clock)
       IN call' = IF check.allowed
                  THEN [call EXCEPT !.new = @ - 1,
                                    !.call_times = RateLimiter_record_call(check.call_times, call.clock),
                                    !.recorded = Append(@, call.clock)]
                  ELSE [call EXCEPT !.new = @ - 1,
                                    !.call_times = check.call_times,
                                    !.sleeping = @ + 1]
    /\ UNCHANGED <<pc, result, all_but_call>>

\* _rate_limit of one request after the sleep: can_make_call again, then
\* record_call or raise RateLimitError(retry_after=1)
RateLimitRetry ==
    /\ pc = "limiting"
    /\ call.sleeping > 0
    /\ LET check == RateLimiter_can_make_call(call.call_times, call.clock)
       IN call' = IF check.allowed
                  THEN [call EXCEPT !.sleeping = @ - 1,
                                    !.call_times = RateLimiter_record_call(check.call_times, call.clock),
                                    !.recorded = Append(@, call.clock)]
                  ELSE [call EXCEPT !.sleeping = @ - 1,
                                    !.call_times = check.call_times,
                                    !.raised = @ + 1]
    /\ UNCHANGED <<pc, result, all_but_call>>

\* time.time() / datetime.now() advances
TimePasses ==
    /\ pc \in {"limiting", "recovering"}
    /\ call.clock < MaxClock
    /\ call' = [call EXCEPT !.clock = @ + 1]
    /\ result' = None
    /\ UNCHANGED <<pc, all_but_call>>

\* every request has left _rate_limit
RateLimitDone ==
    /\ pc = "limiting"
    /\ call.new = 0
    /\ call.sleeping = 0
    /\ result' = [raised |-> call.raised > 0, value |-> call.recorded]
    /\ pc' = "returned"
    /\ UNCHANGED <<call, all_but_call>>

-----------------------------------------------------------------------------
(* ErrorRecovery (src/src/utils/error_handler.py) *)

\* self.max_errors
max_errors == 5
\* self.error_window (300 seconds), in ticks of the clock
ErrorWindowTicks == 2

ErrorTypes == {"APIError", "TestError"}

\* faulty variant of should_circuit_break: the breaker opens after max_errors
circuit_breaks_above_limit(recovery, error_type) ==
    (IF error_type \in DOMAIN recovery.error_counts
     THEN recovery.error_counts[error_type] ELSE 0) > max_errors

\* _clean_old_errors: the types whose last error is older than the window
\* are deleted from both tables
ErrorRecovery_clean_old_errors(recovery, clock) ==
    LET old == {t \in DOMAIN recovery.error_counts :
                   /\ t \in DOMAIN recovery.last_errors
                   /\ clock - recovery.last_errors[t] > ErrorWindowTicks}
    IN [error_counts |-> [t \in DOMAIN recovery.error_counts \ old |-> recovery.error_counts[t]],
        last_errors |-> [t \in DOMAIN recovery.last_errors \ old |-> recovery.last_errors[t]]]

\* record_error: clean, then count the error and note its time
ErrorRecovery_record_error(recovery, error_type, clock) ==
    LET cleaned == ErrorRecovery_clean_old_errors(recovery, clock)
        count == IF error_type \in DOMAIN cleaned.error_counts
                 THEN cleaned.error_counts[error_type] ELSE 0
    IN [error_counts |-> [t \in DOMAIN cleaned.error_counts \cup {error_type} |->
                             IF t = error_type THEN count + 1 ELSE cleaned.error_counts[t]],
        last_errors |-> [t \in DOMAIN cleaned.last_errors \cup {error_type} |->
                            IF t = error_type THEN clock ELSE cleaned.last_errors[t]]]

\* should_circuit_break on the cleaned tables: self.error_counts.get(error_type, 0) >= self.max_errors
ErrorRecovery_should_circuit_break(recovery, error_type) ==
    (IF error_type \in DOMAIN recovery.error_counts
     THEN recovery.error_counts[error_type] ELSE 0) >= max_errors

\* reset_error_count: the type is deleted from both tables
ErrorRecovery_reset_error_count(recovery, error_type) ==
    [error_counts |-> [t \in DOMAIN recovery.error_counts \ {error_type} |-> recovery.error_counts[t]],
     last_errors |-> [t \in DOMAIN recovery.last_errors \ {error_type} |-> recovery.last_errors[t]]]

\* ErrorRecovery(): both tables are empty
CallErrorRecovery ==
    /\ pc = "idle"
    /\ call' = [fn |-> "ErrorRecovery", op |-> "__init__", error_type |-> "APIError", clock |-> 0,
                recovery |-> [error_counts |-> EmptyMap, last_errors |-> EmptyMap]]
    /\ result' = None
    /\ pc' = "recovering"
    /\ UNCHANGED all_but_call

\* one call of record_error, should_circuit_break or reset_error_count; a
\* type is recorded up to max_errors + 1 times
ErrorRecoveryCall ==
    /\ pc = "recovering"
    /\ \E t \in ErrorTypes :
          \/ /\ (t \in DOMAIN call.recovery.error_counts => call.recovery.error_counts[t] <= max_errors)
             /\ call' = [call EXCEPT !.op = "record_error", !.error_type = t,
                                     !.recovery = ErrorRecovery_record_error(@, t, call.clock)]
             /\ result' = None
          \/ LET cleaned == ErrorRecovery_clean_old_errors(call.recovery, call.clock)
             IN /\ call' = [call EXCEPT !.op = "should_circuit_break", !.error_type = t,
                                        !.recovery = cleaned]
                /\ result' = [raised |-> FALSE,
                              value |-> ErrorRecovery_should_circuit_break(cleaned, t)]
          \/ /\ call' = [call EXCEPT !.op = "reset_error_count", !.error_type = t,
                                     !.recovery = ErrorRecovery_reset_error_count(@, t)]
             /\ result' = None
    /\ UNCHANGED <<pc, all_but_call>>

-----------------------------------------------------------------------------
(* scan_market on screener data that does not change during the scan *)

\* no data, a strong rise with spikes, a strong fall, a rise with volume
MarketMetrics == {NoMetric, BullMetric, BearMetric, Metric(4, 300, 50)}

\* scan_market(top_n): the screener data of a symbol is the same for
\* scan_top_movers and for analyze_all_screeners; the heatmap of a symbol has
\* 2 long and 2 short levels of a small or a big value each
CallScanMarket ==
    /\ pc = "idle"
    /\ \E order \in SymbolOrders, listing \in [Symbols -> MarketMetrics],
          long_value \in [Symbols -> {MinLiquidationValue, BigValue}],
          short_value \in [Symbols -> {MinLiquidationValue, BigValue}],
          rv \in [Symbols -> ScanRsiValues], top_n \in {1, 2} :
          LET top_movers == VisualScreenerAnalyzer_scan_top_movers(order, listing, top_n * 2)
              analysis == [sym \in Symbols |->
                  LET cp == get_current_price(sym)
                      h == <<DataResponse(PrefixMap(cp, "long", 2, long_value[sym]),
                                          PrefixMap(cp, "short", 2, short_value[sym])),
                             NoDataResponse>>
                  IN MasterStrategy_analyze_symbol(
                         sym, cp,
                         VisualScreenerAnalyzer_analyze_all_screeners(sym, listing[sym]),
                         LiquidationAnalyzer_analyze_liquidations(sym, cp, h),
                         RSIAnalyzer_analyze_rsi(sym, rv[sym]), 0)]
          IN /\ call' = [fn |-> "scan_market", top_movers |-> top_movers,
                         analysis |-> analysis, top_n |-> top_n]
             /\ result' = MasterStrategy_scan_market(top_movers, analysis, top_n)
    /\ pc' = "returned"
    /\ UNCHANGED all_but_call

-----------------------------------------------------------------------------
(* The CoinGlassClient of MasterStrategy: one connector, a session per
   "async with" block (src/src/api/coinglass_client.py, src/src/main.py) *)

\* scan cycles of run after the start-up
MaxCycles == 2

\* WhaleRadar.initialize: MasterStrategy() builds the client, whose __init__
\* creates the connector and no session; _test_connections is about to enter
\* "async with self.strategy.client"
CallInitialize ==
    /\ pc = "idle"
    /\ call' = [fn |-> "CoinGlassClient", phase |-> "startup", step |-> "enter",
                connector_closed |-> FALSE, session |-> "none",
                requests |-> 0, raised |-> FALSE, cycles |-> 0]
    /\ result' = None
    /\ pc' = "client"
    /\ UNCHANGED all_but_call

\* __aenter__: a new ClientSession on self.connector
ClientAenter ==
    /\ pc = "client"
    /\ call.step = "enter"
    /\ call' = [call EXCEPT !.session = "open", !.step = "request"]
    /\ UNCHANGED <<pc, result, all_but_call>>

\* _make_request inside the block: self.session.get on the session of the
\* block; the connection test issues one request (get_perpetual_symbols), a
\* scan cycle several; a request returns or raises
ClientRequest ==
    /\ pc = "client"
    /\ call.step = "request"
    /\ call.requests < MaxRequests
    /\ call.phase = "startup" => call.requests = 0
    /\ \E raised \in BOOLEAN :
          call' = [call EXCEPT !.requests = @ + 1, !.raised = raised]
    /\ UNCHANGED <<pc, result, all_but_call>>

\* __aexit__ at the end of the block, left normally or by an exception:
\* session.close() and connector.close(). After the connection test the
\* program exits (sys.exit(1): the request or the Telegram test failed) or
\* goes on to run; after a scan cycle run goes on to the next cycle or stops
ClientAexit ==
    /\ pc = "client"
    /\ call.step = "request"
    /\ call.phase = "startup" => call.requests = 1
    /\ LET closed == [call EXCEPT !.session = "closed", !.connector_closed = TRUE,
                                  !.step = "exited"]
           next_block == [closed EXCEPT !.phase = "scan", !.step = "enter",
                                        !.requests = 0, !.raised = FALSE,
                                        !.cycles = @ + 1]
       IN \/ /\ call.phase = "startup" => ~call.raised
             /\ call.cycles < MaxCycles
             /\ call' = next_block
             /\ pc' = "client"
          \/ /\ call' = closed
             /\ pc' = "returned"
    /\ UNCHANGED <<result, all_but_call>>

NextCalls ==
    \/ CallPredictWhaleTarget
    \/ CallDistributePosition
    \/ CallCalculateMomentumScore
    \/ CallDetermineRsiStatus
    \/ CallConfirmDirectionWithRsi
    \/ CallExecuteWithRetry
    \/ RetryAttempt
    \/ RetriesExhausted
    \/ CallRateLimit
    \/ RateLimitEnter
    \/ RateLimitRetry
    \/ TimePasses
    \/ RateLimitDone
    \/ CallErrorRecovery
    \/ ErrorRecoveryCall
    \/ CallScanMarket
    \/ CallInitialize
    \/ ClientAenter
    \/ ClientRequest
    \/ ClientAexit
    \/ ForgetCall

SpecCalls == InitCalls /\ [][NextCalls]_vars

\* the event loop runs a coroutine that can take a step: func and
\* asyncio.sleep are taken to return
FairSpecCalls == SpecCalls /\ WF_vars(RetryAttempt) /\ WF_vars(RetriesExhausted)

predict_returned == pc = "returned" /\ call.fn = "_predict_whale_target"

\* the price of a cluster of the list that no other cluster of the list is nearer than
is_nearest_price(clusters, price) ==
    \E i \in 1..Len(clusters) :
        /\ \A j \in 1..Len(clusters) : clusters[i].distance_pct <= clusters[j].distance_pct
        /\ price = clusters[i].price * PriceScale

\* C11: _predict_whale_target with an imbalance above 30 and a short cluster
\* returns UP and the price of the short cluster of minimum distance; with an
\* imbalance below -30 and a long cluster it returns DOWN and the price of the
\* long cluster of minimum distance; the confidence of a returned target is
\* HIGH exactly when |imbalance| > 30 and MEDIUM otherwise
C11_TargetIsNearestOppositeCluster ==
    predict_returned =>
        LET tl == call.total_longs
            ts == call.total_shorts
        IN /\ (ImbalanceGT(tl, ts, 30) /\ call.short_clusters # <<>>) =>
                  /\ ~result.raised
                  /\ result.direction = "UP"
                  /\ is_nearest_price(call.short_clusters, result.price)
           /\ (ImbalanceLT(tl, ts, -30) /\ call.long_clusters # <<>>) =>
                  /\ ~result.raised
                  /\ result.direction = "DOWN"
                  /\ is_nearest_price(call.long_clusters, result.price)
           /\ ~result.raised =>
                  /\ result.confidence \in {"HIGH", "MEDIUM"}
                  /\ result.confidence = "HIGH" <=>
                         (ImbalanceGT(tl, ts, 30) \/ ImbalanceLT(tl, ts, -30))

\* an imbalance of +72.3 with two short clusters, the nearer one second: UP,
\* HIGH, and the price of the second
C11_Witness ==
    /\ predict_returned
    /\ call.total_longs = 277
    /\ call.total_shorts = 1723
    /\ Len(call.short_clusters) = 2
    /\ call.short_clusters[2].distance_pct < call.short_clusters[1].distance_pct
    /\ result = [raised |-> FALSE,
                 price |-> call.short_clusters[2].price * PriceScale,
                 direction |-> "UP",
                 confidence |-> "HIGH"]

\* C12: _predict_whale_target never raises; with an imbalance above 30 and no
\* short cluster it returns current_price * 1.05 and UP, with an imbalance
\* below -30 and no long cluster it returns current_price * 0.95 and DOWN
C12_FallbackTargetWithoutCluster ==
    predict_returned =>
        LET tl == call.total_longs
            ts == call.total_shorts
        IN /\ ~result.raised
           /\ (ImbalanceGT(tl, ts, 30) /\ call.short_clusters = <<>>) =>
                  /\ result.price = call.current_price * 1050
                  /\ result.direction = "UP"
           /\ (ImbalanceLT(tl, ts, -30) /\ call.long_clusters = <<>>) =>
                  /\ result.price = call.current_price * 950
                  /\ result.direction = "DOWN"

distribute_returned == pc = "returned" /\ call.fn = "_distribute_position"

\* C14: _distribute_position(n) returns n integer percentages that sum to
\* exactly 100, and the fixed tables for n = 1..4
C14_DistributionSumsTo100 ==
    distribute_returned =>
        /\ Len(result) = call.num_entries
        /\ \A i \in 1..Len(result) : result[i] \in Nat
        /\ SumSeq(result) = 100
        /\ call.num_entries = 1 => result = <<100>>
        /\ call.num_entries = 2 => result = <<60, 40>>
        /\ call.num_entries = 3 => result = <<40, 35, 25>>
        /\ call.num_entries = 4 => result = <<30, 30, 25, 15>>

\* 7 entries: 100 is not a multiple of 7, the first two entries take the rest
C14_Witness ==
    /\ distribute_returned
    /\ call.num_entries = 7
    /\ result = <<15, 15, 14, 14, 14, 14, 14>>

\* C13: the imbalance of an analysis is within [-100, 100] when the totals sum
\* to more than 0, and is exactly 0 when both totals are 0 (the stored value is
\* the imbalance times ScoreScale)
C13_ImbalanceWithinBounds ==
    (pc = "deep_analysed" /\ ~deep.raised) =>
        LET tl == deep.total_long_liquidations
            ts == deep.total_short_liquidations
            S == ScoreScale(tl, ts)
        IN /\ tl >= 0 /\ ts >= 0
           /\ tl + ts > 0 =>
                  /\ -100 * S <= deep.liquidation_imbalance_pct
                  /\ deep.liquidation_imbalance_pct <= 100 * S
           /\ tl + ts = 0 => deep.liquidation_imbalance_pct = 0

\* longs only: the imbalance is exactly -100
C13_Witness ==
    /\ pc = "deep_analysed"
    /\ ~deep.raised
    /\ deep.total_long_liquidations > 0
    /\ deep.total_short_liquidations = 0
    /\ deep.liquidation_imbalance_pct = -100 * deep.total_long_liquidations

momentum_returned == pc = "returned" /\ call.fn = "_calculate_momentum_score"

C16_StrongLongScenarioScore ==
    (momentum_returned /\ call.data = Metric(10, 500, 50)) =>
        /\ volume_spike_threshold = 200
        /\ oi_spike_threshold = 50
        /\ result.momentum_score \in 80..90
        /\ result.bias = "STRONG_LONG"

\* C17: the all-zero metric gets exactly 50, the bullish metric (+5, +300, +50)
\* more than 70, the bearish metric (-5, +50, -30) less than 30
C17_ScoresOfTheUnitTest ==
    momentum_returned =>
        /\ call.data = Metric(0, 0, 0) => result.momentum_score = 50
        /\ call.data = Metric(5, 300, 50) => result.momentum_score > 70
        /\ call.data = Metric(-5, 50, -30) => result.momentum_score < 30

status_returned == pc = "returned" /\ call.fn = "_determine_rsi_status"

\* the value of a timeframe, 50 when it is missing
value_or_50(rsi_values, tf) == IF tf \in DOMAIN rsi_values THEN rsi_values[tf] ELSE 50

count_oversold(rsi_values) ==
    Cardinality({tf \in {"1h", "4h", "12h", "1d"} : value_or_50(rsi_values, tf) <= 30})

count_overbought(rsi_values) ==
    Cardinality({tf \in {"1h", "4h", "12h", "1d"} : value_or_50(rsi_values, tf) >= 70})

\* C18: _determine_rsi_status counts the values <= 30 and the values >= 70 of
\* 1h, 4h, 12h, 1d only, a missing one being 50, and returns the first match of
\* >= 3 oversold: OVERSOLD, >= 3 overbought: OVERBOUGHT, >= 2 oversold: WEAK,
\* >= 2 overbought: STRONG, else NEUTRAL; so two oversold and two overbought
\* give WEAK, and 25, 28, 30, 35 give OVERSOLD or WEAK
C18_StatusByCounts ==
    status_returned =>
        LET oversold == count_oversold(call.rsi_values)
            overbought == count_overbought(call.rsi_values)
        IN /\ result = IF oversold >= 3 THEN "OVERSOLD"
                       ELSE IF overbought >= 3 THEN "OVERBOUGHT"
                       ELSE IF oversold >= 2 THEN "WEAK"
                       ELSE IF overbought >= 2 THEN "STRONG"
                       ELSE "NEUTRAL"
           /\ (oversold = 2 /\ overbought = 2) => result = "WEAK"
           /\ call.rsi_values = [tf \in {"1h", "4h", "12h", "1d"} |->
                                    IF tf = "1h" THEN 25 ELSE IF tf = "4h" THEN 28
                                    ELSE IF tf = "12h" THEN 30 ELSE 35]
                  => result \in {"OVERSOLD", "WEAK"}

\* two values at the oversold threshold and two at the overbought threshold: WEAK
C18_Witness ==
    /\ status_returned
    /\ DOMAIN call.rsi_values = {"1h", "4h", "12h", "1d"}
    /\ call.rsi_values["1h"] = 30
    /\ call.rsi_values["4h"] = 70
    /\ call.rsi_values["12h"] = 30
    /\ call.rsi_values["1d"] = 70
    /\ result = "WEAK"

confirm_returned == pc = "returned" /\ call.fn = "confirm_direction_with_rsi"

rsi_4h_neutral == 45 <= call.rsi_data.rsi_4h /\ call.rsi_data.rsi_4h <= 55

\* C19: with the direction UP, a status OVERSOLD or WEAK and a 4h RSI outside
\* [45, 55], confirm_direction_with_rsi returns HIGH whatever the 1h and 1d
\* values are; with DOWN, the same for a status OVERBOUGHT or STRONG
C19_StatusAloneGivesHigh ==
    (confirm_returned /\ ~rsi_4h_neutral) =>
        /\ (call.proposed_direction = "UP" /\ call.rsi_data.status \in {"OVERSOLD", "WEAK"})
               => result.confidence = "HIGH"
        /\ (call.proposed_direction = "DOWN" /\ call.rsi_data.status \in {"OVERBOUGHT", "STRONG"})
               => result.confidence = "HIGH"

\* C20: whatever the status, the direction and the other values, a 4h RSI in
\* [45, 55] gives the confidence LOW with "4H RSI is neutral" as the last reason
C20_NeutralOverrideIsLast ==
    (confirm_returned /\ rsi_4h_neutral) =>
        /\ result.confidence = "LOW"
        /\ result.reasons # <<>>
        /\ result.reasons[Len(result.reasons)] = "4H RSI is neutral"

\* UP with the status OVERSOLD and an oversold 1h RSI, which without the
\* override is HIGH resp. MEDIUM: LOW, the override's reason after the others
C20_Witness ==
    /\ confirm_returned
    /\ call.proposed_direction = "UP"
    /\ call.rsi_data.status = "OVERSOLD"
    /\ call.rsi_data.rsi_1h = 25
    /\ call.rsi_data.rsi_4h = 50
    /\ result.confidence = "LOW"
    /\ result.reasons = <<"RSI indicates oversold conditions", "1H RSI oversold",
                          "4H RSI is neutral">>

-----------------------------------------------------------------------------
(* Properties of the alert table, checked under Spec *)

\* the key of the alert that a step delivers, that is, appends to the outbox as sent
delivered_key == <<outbox'[Len(outbox')].signal.symbol,
                   outbox'[Len(outbox')].signal.action,
                   hour_of(outbox'[Len(outbox')].signal.timestamp)>>

delivers == Len(outbox') = Len(outbox) + 1 /\ outbox'[Len(outbox')].result = "sent"

\* C21: send_signal_alert delivers a signal only if its key (symbol, action,
\* hour of the timestamp) is not in sent_alerts, and records the key when the
\* delivery succeeded; keys leave sent_alerts only in cleanup_old_alerts, so
\* between two purges at most one alert per key is delivered
C21_OneAlertPerKey ==
    [][/\ delivers => /\ delivered_key \notin DOMAIN sent_alerts
                      /\ delivered_key \in DOMAIN sent_alerts'
       /\ (DOMAIN sent_alerts \ DOMAIN sent_alerts' # {}) => (pc = "sending" /\ pc' = "sleep")
      ]_vars

\* a signal whose key was recorded by an earlier scan is skipped as a duplicate
C21_Witness ==
    /\ outbox # <<>>
    /\ outbox[Len(outbox)].result = "duplicate"
    /\ alert_key(outbox[Len(outbox)].signal) \in DOMAIN sent_alerts
    /\ sent_alerts[alert_key(outbox[Len(outbox)].signal)] < now

\* C22: at the end of every iteration of run, after the purge of an iteration
\* that completed and in the handler of one that raised, sent_alerts holds no
\* entry recorded one hour or more earlier
C22_NoOldAlertAfterIteration ==
    pc \in {"sleep", "failed"} =>
        \A k \in DOMAIN sent_alerts : now - sent_alerts[k] < TicksPerHour

-----------------------------------------------------------------------------
(* Properties of RetryStrategy, checked under FairSpecCalls *)

in_retry == call.fn = "execute_with_retry"

retryable_errors == {"RateLimitError", "APIError_500", "TimeoutError", "ConnectionError"}

\* the outcome of the last call of func
last_outcome == call.outcomes[Len(call.outcomes)]

\* what execute_with_retry has done when it is left
retry_outcome_is_right ==
    (in_retry /\ pc = "returned") =>
        /\ Len(call.outcomes) >= 1
        /\ \A i \in 1..(Len(call.outcomes) - 1) : call.outcomes[i] \in retryable_errors
        /\ last_outcome = "ok" => result = [raised |-> FALSE, value |-> "Success"]
        /\ last_outcome \notin retryable_errors \cup {"ok"}
               => result = [raised |-> TRUE, value |-> last_outcome]
        /\ last_outcome \in retryable_errors
               => /\ Len(call.outcomes) = call.max_retries
                  /\ result = [raised |-> TRUE, value |-> "WhaleRadarError"]

\* C23: execute_with_retry calls func at most max_retries times and always
\* terminates; it returns the first successful result, re-raises an error
\* that is not retryable (an APIError outside 5xx, an unexpected exception)
\* from the attempt that met it, and raises WhaleRadarError when max_retries
\* attempts failed with retryable errors
C23_RetryIsBoundedAndTerminates ==
    /\ [](in_retry => Len(call.outcomes) <= call.max_retries)
    /\ []retry_outcome_is_right
    /\ (in_retry /\ pc = "retrying") ~> (in_retry /\ pc = "returned")

\* max_retries = 3, two connection errors, then success: 3 calls
C23_Witness ==
    /\ in_retry
    /\ pc = "returned"
    /\ call.max_retries = 3
    /\ call.outcomes = <<"ConnectionError", "ConnectionError", "ok">>
    /\ result = [raised |-> FALSE, value |-> "Success"]

-----------------------------------------------------------------------------
(* Properties of the rate limiter, checked under SpecCalls *)

in_rate_limit == call.fn = "_rate_limit"

\* the number of calls recorded at a time t with from <= t < from + TicksPerSecond
recorded_in_window(from) ==
    Cardinality({i \in 1..Len(call.recorded) :
                    from <= call.recorded[i] /\ call.recorded[i] < from + TicksPerSecond})

\* C24: can_make_call answers True exactly when fewer than calls_per_second
\* calls were recorded within the last second, and the calls admitted by
\* _rate_limit never exceed calls_per_second in a window of one second, with
\* several requests in flight
C24_RateLimiterWindow ==
    in_rate_limit =>
        /\ RateLimiter_can_make_call(call.call_times, call.clock).allowed
               <=> recorded_in_window(call.clock - TicksPerSecond + 1) < CallsPerSecond
        /\ \A from \in 0..MaxClock : recorded_in_window(from) <= CallsPerSecond

\* the limit was reached, a request was refused, and after more than a second
\* further calls were admitted: more calls than the limit in all, never more
\* than the limit in one second
C24_Witness ==
    /\ in_rate_limit
    /\ pc = "returned"
    /\ result.raised
    /\ Len(call.recorded) > CallsPerSecond
    /\ recorded_in_window(0) = CallsPerSecond

-----------------------------------------------------------------------------
(* Properties of ErrorRecovery, checked under SpecCalls *)

in_recovery == call.fn = "ErrorRecovery"

\* the errors of a type that count at the time of the clock: none when the
\* last error of the type is older than the window
counted(c, t) ==
    IF t \in DOMAIN c.recovery.error_counts /\ c.clock - c.recovery.last_errors[t] <= ErrorWindowTicks
    THEN c.recovery.error_counts[t]
    ELSE 0

\* a step of the recovery object: the clock advances, or one method is called
recovery_step ==
    IF call'.clock # call.clock
    THEN \A t \in ErrorTypes :
            counted(call', t) = IF t \in DOMAIN call.recovery.last_errors
                                    /\ call'.clock - call.recovery.last_errors[t] > ErrorWindowTicks
                                 THEN 0 ELSE counted(call, t)
    ELSE /\ call'.op = "record_error" =>
               counted(call', call'.error_type) = counted(call, call'.error_type) + 1
         /\ call'.op = "reset_error_count" => counted(call', call'.error_type) = 0
         /\ call'.op = "should_circuit_break" =>
               counted(call', call'.error_type) = counted(call, call'.error_type)
         /\ \A t \in ErrorTypes \ {call'.error_type} : counted(call', t) = counted(call, t)

\* C25: should_circuit_break(t) is False while fewer than 5 errors of type t
\* count and True once 5 count; the count of a type falls to 0 when its last
\* error is older than the window and when reset_error_count(t) is called;
\* recording an error of a type adds 1 to its count and leaves the counts of
\* the other types alone
C25_CircuitBreakerCounts ==
    /\ []((in_recovery /\ call.op = "should_circuit_break" /\ result # None) =>
             (result.value <=> counted(call, call.error_type) >= 5))
    /\ [][(in_recovery /\ call'.fn = "ErrorRecovery" /\ call' # call) => recovery_step]_vars

\* five errors of one type and one of another: the breaker is open for the first
C25_Witness ==
    /\ in_recovery
    /\ call.op = "should_circuit_break"
    /\ call.error_type = "APIError"
    /\ result = [raised |-> FALSE, value |-> TRUE]
    /\ counted(call, "APIError") = 5
    /\ counted(call, "TestError") = 1

-----------------------------------------------------------------------------
(* Further properties of the signal fusion, checked under SpecSignal *)

reasons_of_signal == {signal.reasons[i] : i \in DOMAIN signal.reasons}

\* C26: in _generate_signal the RSI step never adds points: whatever the
\* screener, liquidation and RSI inputs, the RSI is reported as not confirming,
\* signal_strength is at most 65 and the confidence is never HIGH
C26_RsiNeverAddsPoints ==
    signal.present =>
        /\ "RSI does not confirm direction" \in reasons_of_signal
        /\ signal.signal_strength <= 65
        /\ signal.confidence # "HIGH"

\* a LONG signal confirmed by the liquidations, with both bonuses and an
\* oversold RSI on every timeframe: 20 + 30 - 5 + 10 + 10 = 65, MEDIUM
C26_Witness ==
    /\ signal.present
    /\ signal.action = "LONG"
    /\ liq.direction = "UP"
    /\ rsi.status = "OVERSOLD"
    /\ rsi.rsi_4h < 35
    /\ rsi.rsi_1d < 40
    /\ signal.signal_strength = 65
    /\ signal.confidence = "MEDIUM"

-----------------------------------------------------------------------------
(* Further properties of the momentum scorer, checked under SpecCalls *)

-----------------------------------------------------------------------------
(* Properties of scan_market, checked under SpecCalls *)

scan_returned == pc = "returned" /\ call.fn = "scan_market"

\* C28: the screener data of a symbol being the same when it is ranked and
\* when it is analysed, every signal that scan_market returns is LONG (movers
\* with a momentum_score below 60 are skipped), the list is sorted by
\* signal_strength, strongest first, and has at most top_n entries
C28_ScanMarketReturnsLongsSorted ==
    scan_returned =>
        /\ \A i \in 1..Len(result) : result[i].action = "LONG"
        /\ \A i \in 1..Len(result) : result[i].momentum_score >= 60
        /\ \A i \in 1..(Len(result) - 1) :
              result[i].signal_strength >= result[i + 1].signal_strength
        /\ Len(result) <= call.top_n

\* both symbols give a LONG signal, the second mover the stronger one, and
\* top_n is 1: the stronger signal alone is returned
C28_Witness ==
    /\ scan_returned
    /\ call.top_n = 1
    /\ Len(call.top_movers) = 2
    /\ \A i \in 1..2 : /\ call.analysis[call.top_movers[i].symbol].present
                       /\ call.analysis[call.top_movers[i].symbol].action = "LONG"
    /\ call.analysis[call.top_movers[1].symbol].signal_strength
           < call.analysis[call.top_movers[2].symbol].signal_strength
    /\ result = <<call.analysis[call.top_movers[2].symbol]>>

-----------------------------------------------------------------------------
(* The scale-in zones of a generated signal, checked under SpecSignal *)

\* C29: in every signal that _generate_signal returns the scale-in zones are
\* on the entry side of the action: below current_price for LONG, above it
\* for SHORT, also when the screener bias and the liquidation direction
\* disagree
C29_ZonesOnEntrySide ==
    (pc = "generated" /\ signal.present) =>
        \A i \in 1..Len(signal.scale_in_zones) :
            /\ signal.action = "LONG" => signal.scale_in_zones[i].price < current_price
            /\ signal.action = "SHORT" => signal.scale_in_zones[i].price > current_price

-----------------------------------------------------------------------------
(* The connector of the client in a scan cycle, checked under SpecCalls *)

\* a request has been issued in the block of a scan cycle
scan_request_issued ==
    /\ pc = "client"
    /\ call.fn = "CoinGlassClient"
    /\ call.phase = "scan"
    /\ call.session = "open"
    /\ call.requests > 0

\* C30: the client can be entered and exited repeatedly: whenever a request
\* is issued during a scan cycle, after the connection test and any number of
\* earlier cycles, the connector of the active session has not been closed
C30_ConnectorOpenInScanCycle ==
    scan_request_issued => ~call.connector_closed

====
